---- MODULE Spec2Model ----
(***************************************************************************)
(* State-machine model of the argument parser in src/lib/argparse.js       *)
(* (library part, lines 1-2469).                                           *)
(*                                                                         *)
(* A JavaScript string is a sequence of one-character strings, so that     *)
(* prefixes, '=' splits and regular-expression sources can be computed.    *)
(* A JavaScript value is a record [t, s, n]: t is the typeof tag           *)
(* ("undefined", "string", "boolean", "number", "array"), s the characters *)
(* of a string (or <<"true">> / <<"false">>), n the number.  The only      *)
(* array the value conversion can produce is the empty array (see          *)
(* _getValues), so arrays carry no elements.                               *)
(***************************************************************************)
EXTENDS Integers, Sequences, FiniteSets, TLC

VARIABLES suite, _actions, _optionStringActions, _actionGroupsMutex,
          _hasNegativeNumberOptionals, rejected,
          argStrings, called, resultKnown, resultArgs,
          topic, returned, formatter, cursor

vars == <<suite, _actions, _optionStringActions, _actionGroupsMutex,
          _hasNegativeNumberOptionals, rejected,
          argStrings, called, resultKnown, resultArgs,
          topic, returned, formatter, cursor>>

(***************************************************************************)
(* Bounds of the exploration.                                              *)
(***************************************************************************)
MaxActions == 3
MaxArgs == 2
MaxGroups == 1

(***************************************************************************)
(* Strings.                                                                *)
(***************************************************************************)
Concat(s, t) == s \o t

Drop(s, k) == SubSeq(s, k + 1, Len(s))

Take(s, k) == SubSeq(s, 1, IF k < Len(s) THEN k ELSE Len(s))

\* String.prototype.indexOf for a one-character needle, 1-based, 0 if absent
IndexOfChar(s, c) ==
    IF \E i \in 1..Len(s) : s[i] = c
    THEN CHOOSE i \in 1..Len(s) : s[i] = c /\ \A j \in 1..(i - 1) : s[j] # c
    ELSE 0

IsPrefixOf(p, s) == Len(p) <= Len(s) /\ SubSeq(s, 1, Len(p)) = p

\* String.prototype.indexOf for a substring, 1-based, 0 if absent
IndexOfSub(s, sub) ==
    LET starts == {i \in 1..(Len(s) - Len(sub) + 1) : SubSeq(s, i, i + Len(sub) - 1) = sub}
    IN IF starts = {} THEN 0 ELSE CHOOSE i \in starts : \A j \in starts : i <= j

\* String.prototype.replace(string, string): only the FIRST occurrence
StringReplace(s, sub, rep) ==
    LET i == IndexOfSub(s, sub)
    IN IF i = 0 THEN s
       ELSE SubSeq(s, 1, i - 1) \o rep \o SubSeq(s, i + Len(sub), Len(s))

\* String.prototype.split(sep, 1)[0]: the part before the first separator
SplitFirst(s, c) ==
    LET i == IndexOfChar(s, c)
    IN IF i = 0 THEN s ELSE SubSeq(s, 1, i - 1)

RECURSIVE stringLStrip(_, _)
stringLStrip(string, chars) ==
    IF Len(string) > 0 /\ string[1] \in chars
    THEN stringLStrip(Tail(string), chars)
    ELSE string

RECURSIVE stringRStrip(_, _)
stringRStrip(string, chars) ==
    IF Len(string) > 0 /\ string[Len(string)] \in chars
    THEN stringRStrip(SubSeq(string, 1, Len(string) - 1), chars)
    ELSE string

stringStrip(string, chars) == stringLStrip(stringRStrip(string, chars), chars)

\* Array.prototype.join
RECURSIVE Join(_, _)
Join(parts, sep) ==
    IF parts = <<>> THEN <<>>
    ELSE IF Len(parts) = 1 THEN parts[1]
    ELSE parts[1] \o sep \o Join(Tail(parts), sep)

\* String.prototype.toUpperCase on the letters a-z
ToUpperCase(chars) ==
    LET lower == <<"a", "b", "c", "d", "e", "f", "g", "h", "i", "j", "k", "l", "m",
                   "n", "o", "p", "q", "r", "s", "t", "u", "v", "w", "x", "y", "z">>
        upper == <<"A", "B", "C", "D", "E", "F", "G", "H", "I", "J", "K", "L", "M",
                   "N", "O", "P", "Q", "R", "S", "T", "U", "V", "W", "X", "Y", "Z">>
    IN [i \in 1..Len(chars) |->
          IF \E k \in 1..26 : lower[k] = chars[i]
          THEN upper[CHOOSE k \in 1..26 : lower[k] = chars[i]]
          ELSE chars[i]]

stringRepeat(string, count) ==
    LET RECURSIVE rep(_)
        rep(k) == IF k < 1 THEN <<>> ELSE string \o rep(k - 1)
    IN rep(count)

(***************************************************************************)
(* Values.                                                                 *)
(***************************************************************************)
Undefined == [t |-> "undefined", s |-> <<>>, n |-> 0]

Str(chars) == [t |-> "string", s |-> chars, n |-> 0]

Bool(b) == [t |-> "boolean", s |-> IF b THEN <<"true">> ELSE <<"false">>, n |-> 0]

Num(k) == [t |-> "number", s |-> <<>>, n |-> k]

EmptyArray == [t |-> "array", s |-> <<>>, n |-> 0]

\* $defined(obj): obj != undefined
defined(v) == v.t # "undefined"

\* $value(value, defaultValue)
value(v, defaultValue) == IF ~defined(v) THEN defaultValue ELSE v

Digits == <<"0", "1", "2", "3", "4", "5", "6", "7", "8", "9">>

IsDigit(c) == \E i \in 1..10 : Digits[i] = c

DigitVal(c) == (CHOOSE i \in 1..10 : Digits[i] = c) - 1

RECURSIVE DigitsVal(_)
DigitsVal(chars) ==
    IF chars = <<>> THEN 0
    ELSE 10 * DigitsVal(SubSeq(chars, 1, Len(chars) - 1)) + DigitVal(chars[Len(chars)])

\* ToNumber of the language on a string: [nan, n].  The strings of the
\* model are empty, decimal numerals (optionally signed) or not numeric.
StringToNumber(chars) ==
    IF chars = <<>> THEN [nan |-> FALSE, n |-> 0]
    ELSE IF \A i \in 1..Len(chars) : IsDigit(chars[i])
         THEN [nan |-> FALSE, n |-> DigitsVal(chars)]
    ELSE IF Len(chars) > 1 /\ chars[1] = "-" /\ \A i \in 2..Len(chars) : IsDigit(chars[i])
         THEN [nan |-> FALSE, n |-> 0 - DigitsVal(Tail(chars))]
    ELSE [nan |-> TRUE, n |-> 0]

\* ToNumber on a primitive value (string, boolean, number)
ToNumber(v) ==
    CASE v.t = "string" -> StringToNumber(v.s)
      [] v.t = "boolean" -> [nan |-> FALSE, n |-> IF v.s = <<"true">> THEN 1 ELSE 0]
      [] OTHER -> [nan |-> FALSE, n |-> v.n]

\* ToPrimitive: the empty array converts to the empty string
ToPrimitive(v) == IF v.t = "array" THEN Str(<<>>) ELSE v

\* The == operator of the language (abstract equality).  sameObject tells
\* whether two arrays are the same object.
LooseEq(a, b, sameObject) ==
    IF a.t = "array" /\ b.t = "array" THEN sameObject
    ELSE IF a.t = "undefined" \/ b.t = "undefined" THEN a.t = b.t
    ELSE LET pa == ToPrimitive(a)
             pb == ToPrimitive(b)
         IN IF pa.t = pb.t THEN pa = pb
            ELSE LET na == ToNumber(pa)
                     nb == ToNumber(pb)
                 IN ~na.nan /\ ~nb.nan /\ na.n = nb.n

\* the sentinel '==SUPPRESS=='
SUPPRESS == <<"=", "=", "S", "U", "P", "P", "R", "E", "S", "S", "=", "=">>

OPTIONAL == "?"
ZERO_OR_MORE == "*"
ONE_OR_MORE == "+"
PARSER == "A..."
REMAINDER == "..."

(***************************************************************************)
(* Regular expressions over the pattern alphabet.  A source string is      *)
(* compiled into a list of items [cs, q, g]: the set of characters the     *)
(* item accepts, its quantifier ("1", "*", "?") and the number of the      *)
(* capturing group it lies in (0 outside every group).  The sources the    *)
(* parser builds use literals, character classes, '*', '?' and unnested    *)
(* groups only.  A quantifier with nothing to repeat is a SyntaxError of   *)
(* new RegExp, compiled to an item with q = "SyntaxError".                 *)
(***************************************************************************)
ReSyntaxError == <<[cs |-> {}, q |-> "SyntaxError", g |-> 0]>>

IsQuantifier(c) == c \in {"*", "?"}

\* the item for an atom ending at index e of src, and the index after it
ReAtom(src, e, cs, g) ==
    IF e + 1 <= Len(src) /\ IsQuantifier(src[e + 1])
    THEN IF e + 2 <= Len(src) /\ src[e + 2] = "*"
         THEN [item |-> ReSyntaxError[1], next |-> Len(src) + 1]
         ELSE [item |-> [cs |-> cs, q |-> src[e + 1], g |-> g], next |-> e + 2]
    ELSE [item |-> [cs |-> cs, q |-> "1", g |-> g], next |-> e + 1]

RECURSIVE ReCompile(_, _, _, _)
ReCompile(src, i, g, groups) ==
    IF i > Len(src) THEN <<>>
    ELSE IF src[i] = "(" THEN ReCompile(src, i + 1, groups + 1, groups + 1)
    ELSE IF src[i] = ")" THEN ReCompile(src, i + 1, 0, groups)
    ELSE IF IsQuantifier(src[i]) THEN ReSyntaxError
    ELSE LET close == IF src[i] = "["
                      THEN i + IndexOfChar(Drop(src, i), "]")
                      ELSE i
             cs == IF src[i] = "["
                   THEN {src[k] : k \in (i + 1)..(close - 1)}
                   ELSE {src[i]}
             atom == ReAtom(src, close, cs, g)
         IN IF atom.item.q = "SyntaxError" THEN ReSyntaxError
            ELSE LET rest == ReCompile(src, atom.next, g, groups)
                 IN IF rest = ReSyntaxError THEN ReSyntaxError
                    ELSE <<atom.item>> \o rest

\* new RegExp(source)
NewRegExp(src) == ReCompile(src, 1, 0, 0)

\* RegExp.prototype.toString: the source between slashes
RegExpToString(src) == <<"/">> \o src \o <<"/">>

\* number of characters of str accepted by item from position j on
RECURSIVE ReRun(_, _, _)
ReRun(item, str, j) ==
    IF j <= Len(str) /\ str[j] \in item.cs THEN 1 + ReRun(item, str, j + 1) ELSE 0

\* Backtracking match of items[k..] at position j of str, greedy: the
\* result is [ok, cnt], cnt the number of characters each item consumed
\* in the first match the backtracking finds.
RECURSIVE ReMatchFrom(_, _, _, _)
RECURSIVE ReTry(_, _, _, _, _)
ReMatchFrom(items, k, str, j) ==
    IF k > Len(items) THEN [ok |-> TRUE, cnt |-> <<>>]
    ELSE LET run == ReRun(items[k], str, j)
             most == CASE items[k].q = "*" -> run
                       [] items[k].q = "?" -> IF run > 0 THEN 1 ELSE 0
                       [] OTHER -> 1
             least == IF items[k].q = "1" THEN 1 ELSE 0
         IN IF run < least THEN [ok |-> FALSE, cnt |-> <<>>]
            ELSE ReTry(items, k, str, j, [r |-> most, least |-> least])

ReTry(items, k, str, j, range) ==
    IF range.r < range.least THEN [ok |-> FALSE, cnt |-> <<>>]
    ELSE LET rest == ReMatchFrom(items, k + 1, str, j + range.r)
         IN IF rest.ok THEN [ok |-> TRUE, cnt |-> <<range.r>> \o rest.cnt]
            ELSE ReTry(items, k, str, j, [r |-> range.r - 1, least |-> range.least])

RECURSIVE SumSeq(_)
SumSeq(q) == IF q = <<>> THEN 0 ELSE Head(q) + SumSeq(Tail(q))

GroupLength(items, cnt, g) ==
    SumSeq([k \in 1..Len(items) |-> IF items[k].g = g THEN cnt[k] ELSE 0])

NumGroups(items) ==
    IF items = <<>> THEN 0
    ELSE CHOOSE m \in 0..Len(items) :
            /\ \A k \in 1..Len(items) : items[k].g <= m
            /\ (m = 0 \/ \E k \in 1..Len(items) : items[k].g = m)

\* String.prototype.match(regexp) without the g flag: the leftmost match.
\* The result is [matched, lengths]: lengths[1] is the length of the whole
\* match, lengths[1 + g] the length of group g (the array 'matches' of the
\* code, element by element).
StringMatch(str, items) ==
    LET starts == {j \in 1..(Len(str) + 1) : ReMatchFrom(items, 1, str, j).ok}
    IN IF starts = {} THEN [matched |-> FALSE, lengths |-> <<>>]
       ELSE LET j == CHOOSE x \in starts : \A y \in starts : x <= y
                cnt == ReMatchFrom(items, 1, str, j).cnt
            IN [matched |-> TRUE,
                lengths |-> <<SumSeq(cnt)>> \o
                            [g \in 1..NumGroups(items) |-> GroupLength(items, cnt, g)]]

(***************************************************************************)
(* Action classes.  An action object is a record; 'id' is its identity     *)
(* (object identity in the code).  nargs is "undefined", a numeral         *)
(* ("0", "1", ...) or one of the arity sentinels.  type is "null" (not     *)
(* given), a registry name ("auto", "int", ...) or "callable" (a function  *)
(* supplied by the caller).                                                *)
(***************************************************************************)
IsNumberNargs(nargs) == IsDigit(nargs)

NargsNum(nargs) == DigitVal(nargs)

NoAction ==
    [id |-> 0, cls |-> "none", optionStrings |-> <<>>, destination |-> Undefined,
     nargs |-> "undefined", constant |-> Undefined, defaultValue |-> Undefined,
     type |-> "null", required |-> FALSE]

\* Action.initialize: [threw, action]
ActionInitialize(cls, options) ==
    [threw |-> options.nargs # "undefined" /\ ~IsNumberNargs(options.nargs),
     action |-> [id |-> 0, cls |-> cls,
                 optionStrings |-> options.optionStrings,
                 destination |-> options.destination,
                 nargs |-> options.nargs,
                 constant |-> options.constant,
                 defaultValue |-> options.defaultValue,
                 type |-> options.type,
                 required |-> (options.required = "true")]]

\* _StoreAction.initialize
StoreActionInitialize(options) ==
    LET sup == ActionInitialize("store", options)
    IN IF sup.threw THEN sup
       ELSE [sup EXCEPT !.threw =
                \/ (IsNumberNargs(options.nargs) /\ NargsNum(options.nargs) <= 0)
                \/ (defined(options.constant) /\ options.nargs # OPTIONAL)]

\* _StoreConstantAction.initialize
StoreConstantActionInitialize(cls, options) ==
    ActionInitialize(cls, [options EXCEPT !.nargs = "0"])

\* _StoreTrueAction.initialize
StoreTrueActionInitialize(options) ==
    StoreConstantActionInitialize("store_true",
        [options EXCEPT !.constant = Bool(TRUE),
                        !.defaultValue = value(options.defaultValue, Bool(FALSE))])

\* _StoreFalseAction.initialize
StoreFalseActionInitialize(options) ==
    StoreConstantActionInitialize("store_false",
        [options EXCEPT !.constant = Bool(FALSE),
                        !.defaultValue = value(options.defaultValue, Bool(TRUE))])

\* _AppendAction.initialize: after the parent constructor the test
\* 'nargs <= 0' reads a variable that is declared nowhere (ReferenceError)
AppendActionInitialize(options) ==
    [ActionInitialize("append", options) EXCEPT !.threw = TRUE]

\* _AppendConstantAction.initialize
AppendConstantActionInitialize(options) ==
    LET sup == ActionInitialize("append_constant", options)
    IN [sup EXCEPT !.action.nargs = "0"]

\* _CountAction.initialize
CountActionInitialize(options) == ActionInitialize("count", options)

\* _HelpAction.initialize and _VersionAction.initialize: the default is
\* written to the misspelt key 'defaulValue', which Action never reads
HelpActionInitialize(cls, options) ==
    ActionInitialize(cls,
        [options EXCEPT !.destination = value(options.destination, Str(SUPPRESS)),
                        !.nargs = "0"])

\* _SubParsersAction.initialize
SubParsersActionInitialize(options) ==
    ActionInitialize("parsers",
        [options EXCEPT !.destination = value(options.destination, Str(SUPPRESS)),
                        !.nargs = PARSER])

\* the names _ActionContainer.initialize registers in the 'action' registry
RegisteredActions ==
    {"null", "store", "store_constant", "store_true", "store_false", "append",
     "append_constant", "count", "help", "version", "parsers"}

\* the names ArgumentParser.initialize registers in the 'type' registry
RegisteredTypes == {"auto", "null"}

\* new actionClass(kwargs) for the class registered under 'name'
NewAction(name, options) ==
    CASE name \in {"null", "store"} -> StoreActionInitialize(options)
      [] name = "store_constant" -> StoreConstantActionInitialize("store_constant", options)
      [] name = "store_true" -> StoreTrueActionInitialize(options)
      [] name = "store_false" -> StoreFalseActionInitialize(options)
      [] name = "append" -> AppendActionInitialize(options)
      [] name = "append_constant" -> AppendConstantActionInitialize(options)
      [] name = "count" -> CountActionInitialize(options)
      [] name \in {"help", "version"} -> HelpActionInitialize(name, options)
      [] OTHER -> SubParsersActionInitialize(options)

isPositional(action) == Len(action.optionStrings) = 0

isOptional(action) == ~isPositional(action)

\* the characters that introduce an option (ArgumentParser.initialize)
prefixChars == {"-"}

(***************************************************************************)
(* _ActionContainer: declaration.                                          *)
(***************************************************************************)
\* this._regexpNegativeNumber = '^-\d+$|^-\d*\.\d+$' is a string literal:
\* the escapes \d and \. are the characters d and ., so the expression
\* handed to String.match is  ^-d+$|^-d*.d+$
MatchesRegexpNegativeNumber(chars) ==
    /\ Len(chars) >= 2
    /\ chars[1] = "-"
    /\ \/ \A i \in 2..Len(chars) : chars[i] = "d"
       \/ \E k \in 2..(Len(chars) - 1) :
             /\ \A i \in 2..(k - 1) : chars[i] = "d"
             /\ \A i \in (k + 1)..Len(chars) : chars[i] = "d"

\* an array is an object, and every object is truthy
ArrayIsTruthy(array) == TRUE

\* the keyword arguments a caller hands to addArgument
Kwargs(args, action) ==
    [args |-> args, action |-> action, nargs |-> "undefined",
     constant |-> Undefined, defaultValue |-> Undefined, type |-> "null",
     required |-> "undefined", destination |-> Undefined]

\* the test of addArgument that selects the positional branch
IsPositionalArgs(args) ==
    Len(args) = 1 /\ (args[1] = <<>> \/ args[1][1] \notin prefixChars)

\* _getPositionalKwargs: [threw, options].  kwargs['default'] is read,
\* a key the Action constructor does not use (it reads 'defaultValue').
getPositionalKwargs(args, kwargs) ==
    [threw |-> kwargs.required # "undefined",
     options |-> [optionStrings |-> <<>>,
                  destination |-> Str(args[1]),
                  nargs |-> kwargs.nargs,
                  constant |-> kwargs.constant,
                  defaultValue |-> kwargs.defaultValue,
                  type |-> kwargs.type,
                  required |-> IF kwargs.nargs \notin {OPTIONAL, ZERO_OR_MORE}
                               THEN "true"
                               ELSE IF kwargs.nargs = ZERO_OR_MORE
                                    THEN "true"
                                    ELSE kwargs.required]]

\* _getOptionalKwargs: [threw, options]
getOptionalKwargs(args, kwargs) ==
    LET optionStringsLong ==
            SelectSeq(args, LAMBDA o : Len(o) > 1 /\ o[1] \in prefixChars
                                                  /\ o[2] \in prefixChars)
        optionStringDestination ==
            IF Len(optionStringsLong) > 0 THEN optionStringsLong[1] ELSE args[1]
        stripped == stringLStrip(optionStringDestination, prefixChars)
        inferred == StringReplace(stripped, <<"-">>, <<"_">>)
        badPrefix == \E i \in 1..Len(args) : args[i] = <<>> \/ args[i][1] \notin prefixChars
    IN [threw |-> \/ badPrefix
                  \/ (~defined(kwargs.destination) /\ Len(args) = 0)
                  \/ (~defined(kwargs.destination) /\ ~badPrefix /\ Len(args) > 0
                        /\ Len(stripped) = 0),
        options |-> [optionStrings |-> args,
                     destination |-> IF defined(kwargs.destination)
                                     THEN kwargs.destination
                                     ELSE IF Len(args) > 0 /\ ~badPrefix
                                          THEN Str(inferred) ELSE Undefined,
                     nargs |-> kwargs.nargs,
                     constant |-> kwargs.constant,
                     defaultValue |-> kwargs.defaultValue,
                     type |-> kwargs.type,
                     required |-> kwargs.required]]

\* $isCallable(typeFunc) for the value _registryGet('type', type, type) gives
TypeIsCallable(type) == type \in RegisteredTypes \/ type = "callable"

\* _checkConflict: the option strings of action already in the index
checkConflict(action, optionStringActions) ==
    SelectSeq(action.optionStrings, LAMBDA o : o \in DOMAIN optionStringActions)

\* the conflict handler of the parser: 'error' is the default of
\* _ActionContainer.initialize, and the parser of the suite "resolve" is
\* made with {conflictHandler: 'resolve'}
conflictHandler == IF suite = "resolve" THEN "resolve" ELSE "error"

\* addArgument up to the call of _addAction: [threw, action]
BuildAction(kwargs) ==
    LET kw == IF IsPositionalArgs(kwargs.args)
              THEN IF defined(kwargs.destination)
                   THEN [threw |-> TRUE, options |-> getPositionalKwargs(kwargs.args, kwargs).options]
                   ELSE getPositionalKwargs(kwargs.args, kwargs)
              ELSE getOptionalKwargs(kwargs.args, kwargs)
        made == NewAction(kwargs.action, kw.options)
    IN IF kw.threw \/ kwargs.action \notin RegisteredActions THEN [threw |-> TRUE, action |-> NoAction]
       ELSE IF made.threw \/ ~TypeIsCallable(made.action.type)
            THEN [threw |-> TRUE, action |-> NoAction]
            ELSE made

\* _MutuallyExclusiveGroup._addAction (group > 0) or ArgumentParser._addAction
\* (group = 0), down to _ActionContainer._addAction: TRUE if it throws.
\* _checkConflict calls the handler on every conflict: _handleConflictError
\* throws an ArgumentError, _handleConflictResolve a TypeError
AddActionThrows(action, group, optionStringActions) ==
    \/ (group > 0 /\ action.required)
    \/ Len(checkConflict(action, optionStringActions)) > 0

(***************************************************************************)
(* Namespace.                                                              *)
(***************************************************************************)
EmptyNamespace == [k \in {} |-> Undefined]

\* Namespace.set
NamespaceSet(namespace, key, v) ==
    [k \in (DOMAIN namespace) \cup {key} |-> IF k = key THEN v ELSE namespace[k]]

\* Namespace.get, and the property read namespace[key]
NamespaceGet(namespace, key) ==
    IF key \in DOMAIN namespace THEN namespace[key] ELSE Undefined

(***************************************************************************)
(* ArgumentParser: value conversion.  A parser is the record               *)
(* [_actions, _optionStringActions, _actionGroupsMutex,                    *)
(*  _hasNegativeNumberOptionals].  An operation that can throw returns a   *)
(* record with the field 'threw'.                                          *)
(***************************************************************************)
\* a type function supplied by the caller: it converts a decimal numeral
\* to the number and throws on every other string
UserTypeFunc(chars) ==
    IF chars # <<>> /\ \A i \in 1..Len(chars) : IsDigit(chars[i])
    THEN [threw |-> FALSE, v |-> Num(DigitsVal(chars))]
    ELSE [threw |-> TRUE, v |-> Undefined]

\* _getValue
getValue(action, argString) ==
    IF ~TypeIsCallable(action.type) THEN [threw |-> TRUE, v |-> Undefined]
    ELSE IF action.type = "callable" THEN UserTypeFunc(argString)
    ELSE [threw |-> FALSE, v |-> Str(argString)]

\* argStrings.map(function(v) {return this._getValue(action, v);}): the
\* callback is not bound, 'this' is the global object and this._getValue is
\* not a function; the callback runs once per element
MapGetValue(action, argStrs) ==
    [threw |-> Len(argStrs) > 0, v |-> EmptyArray]

\* _getValues
getValues(action, argStrs) ==
    LET filtered == IF action.nargs \notin {PARSER, REMAINDER}
                    THEN SelectSeq(argStrs, LAMBDA a : a # <<"-", "-">>)
                    ELSE argStrs
    IN IF ~ArrayIsTruthy(filtered) /\ action.nargs = OPTIONAL
       THEN LET v == IF isOptional(action) THEN action.constant ELSE action.defaultValue
            IN IF v.t = "string" THEN getValue(action, v.s) ELSE [threw |-> FALSE, v |-> v]
       ELSE IF ~ArrayIsTruthy(filtered) /\ action.nargs = ZERO_OR_MORE /\ isPositional(action)
       THEN [threw |-> FALSE, v |-> value(action.defaultValue, EmptyArray)]
       ELSE IF Len(filtered) = 1 /\ action.nargs \in {"undefined", OPTIONAL}
       THEN getValue(action, filtered[1])
       ELSE MapGetValue(action, filtered)

\* the method 'call' of the action classes: [outcome, namespace]
ActionCall(action, namespace, values) ==
    LET key == action.destination.s
        old == NamespaceGet(namespace, key)
        sum == CASE old.t = "undefined" -> Num(1)
                 [] old.t = "number" -> Num(old.n + 1)
                 [] old.t = "boolean" -> Num(ToNumber(old).n + 1)
                 [] OTHER -> Str(ToPrimitive(old).s \o <<"1">>)
    IN CASE action.cls = "store" ->
              [outcome |-> "run", namespace |-> NamespaceSet(namespace, key, values)]
         [] action.cls \in {"store_constant", "store_true", "store_false"} ->
              [outcome |-> "run", namespace |-> NamespaceSet(namespace, key, action.constant)]
         [] action.cls = "count" ->
              [outcome |-> "run", namespace |-> NamespaceSet(namespace, key, sum)]
         [] action.cls \in {"help", "version"} ->
              [outcome |-> "exit", namespace |-> namespace]
         [] OTHER ->
              [outcome |-> "throw", namespace |-> namespace]

ActionById(parser, id) ==
    LET k == CHOOSE i \in 1..Len(parser._actions) : parser._actions[i].id = id
    IN parser._actions[k]

\* the map actionConflicts of _parseArgsKnown, read for one action: the
\* other members of every mutex group the action is in
RECURSIVE ConflictsIn(_, _)
ConflictsIn(groups, id) ==
    IF groups = <<>> THEN <<>>
    ELSE LET members == Head(groups)._groupActions
         IN (IF \E i \in 1..Len(members) : members[i] = id
             THEN SelectSeq(members, LAMBDA m : m # id)
             ELSE <<>>) \o ConflictsIn(Tail(groups), id)

actionConflicts(parser, id) == ConflictsIn(parser._actionGroupsMutex, id)

InSeq(x, q) == \E i \in 1..Len(q) : q[i] = x

\* takeAction after 'var argValues = this._getValues(action, argumentStrings)':
\* argValues is [threw, v]
TakeValues(parser, st, action, argumentStrings, optionString, argValues) ==
    LET nonDefault == ~LooseEq(argValues.v, action.defaultValue, FALSE)
        conflicts == actionConflicts(parser, action.id)
        clash == nonDefault /\ \E i \in 1..Len(conflicts) :
                                   InSeq(conflicts[i], st.actionsSeenNonDefault)
        invoke == ~LooseEq(argValues.v, Str(SUPPRESS), FALSE)
        seen == [st EXCEPT !.actionsSeen = Append(@, action.id)]
        call == [action |-> action.id, args |-> argumentStrings,
                 values |-> argValues.v, optionString |-> optionString]
    IN IF argValues.threw THEN [seen EXCEPT !.outcome = "throw"]
       ELSE IF clash
       THEN [seen EXCEPT !.outcome = "throw",
                         !.actionsSeenNonDefault = Append(@, action.id)]
       ELSE IF ~invoke
       THEN [seen EXCEPT
               !.actionsSeenNonDefault = IF nonDefault THEN Append(@, action.id) ELSE @]
       ELSE [seen EXCEPT
               !.actionsSeenNonDefault = IF nonDefault THEN Append(@, action.id) ELSE @,
               !.namespace = ActionCall(action, st.namespace, argValues.v).namespace,
               !.calls = Append(@, call),
               !.outcome = ActionCall(action, st.namespace, argValues.v).outcome]

\* takeAction: st is the state of the parse
takeAction(parser, st, action, argumentStrings, optionString) ==
    TakeValues(parser, st, action, argumentStrings, optionString,
               getValues(action, argumentStrings))

(***************************************************************************)
(* ArgumentParser: classification of the tokens.                           *)
(***************************************************************************)
NoTuple == [kind |-> "positional", action |-> 0, optionString |-> <<>>,
            argExplicit |-> Undefined]

OptionTuple(id, optionString, argExplicit) ==
    [kind |-> "option", action |-> id, optionString |-> optionString,
     argExplicit |-> argExplicit]

\* _getOptionTuples: [outcome, tuples].  Both branches that collect
\* candidates call this._optionStringActions.forEach, and a plain object
\* has no method forEach (TypeError); the last branch calls this.error.
getOptionTuples(parser, optionString) ==
    IF optionString[1] \in prefixChars /\ optionString[2] \in prefixChars
    THEN [outcome |-> "throw", tuples |-> <<>>]
    ELSE IF optionString[1] \in prefixChars /\ optionString[2] \notin prefixChars
    THEN [outcome |-> "throw", tuples |-> <<>>]
    ELSE [outcome |-> "error", tuples |-> <<>>]

\* _parseOptional: a tuple, or NoTuple for 'undefined', or the kind
\* "throw" / "error" when the call does not return
parseOptional(parser, argString) ==
    LET index == parser._optionStringActions
        optionString == SplitFirst(argString, "=")
        \* argString.split('=', 1) has one element: element 1 is undefined
        argExplicit == Undefined
        optionTuples == getOptionTuples(parser, argString)
    IN IF argString = <<>> \/ argString[1] \notin prefixChars THEN NoTuple
       ELSE IF argString \in DOMAIN index
       THEN OptionTuple(index[argString], argString, Undefined)
       ELSE IF Len(argString) = 1 THEN NoTuple
       ELSE IF IndexOfChar(argString, "=") > 0 /\ optionString \in DOMAIN index
       THEN OptionTuple(index[optionString], optionString, argExplicit)
       ELSE IF optionTuples.outcome # "run"
       THEN [NoTuple EXCEPT !.kind = optionTuples.outcome]
       ELSE IF Len(optionTuples.tuples) > 1 THEN [NoTuple EXCEPT !.kind = "error"]
       ELSE IF Len(optionTuples.tuples) = 1 THEN optionTuples.tuples[1]
       ELSE IF MatchesRegexpNegativeNumber(argString)
               /\ ~ArrayIsTruthy(parser._hasNegativeNumberOptionals)
       THEN NoTuple
       ELSE IF IndexOfChar(argString, " ") > 0 THEN NoTuple
       ELSE OptionTuple(0, argString, Undefined)

\* the loop of _parseArgsKnown over argStrings that fills
\* optionStringIndices and argStringPatternParts, from token k on:
\* [outcome, pattern, tuples]
RECURSIVE Classify(_, _, _, _)
Classify(parser, argStrs, k, found) ==
    IF k > Len(argStrs) THEN [outcome |-> "run", pattern |-> <<>>, tuples |-> <<>>]
    ELSE LET tuple == IF found \/ argStrs[k] = <<"-", "-">> THEN NoTuple
                      ELSE parseOptional(parser, argStrs[k])
             part == IF found THEN "A"
                     ELSE IF argStrs[k] = <<"-", "-">> THEN "-"
                     ELSE IF tuple.kind = "option" THEN "O" ELSE "A"
             rest == Classify(parser, argStrs, k + 1, found \/ argStrs[k] = <<"-", "-">>)
         IN IF tuple.kind \in {"throw", "error"}
            THEN [outcome |-> tuple.kind, pattern |-> <<>>, tuples |-> <<>>]
            ELSE [outcome |-> rest.outcome,
                  pattern |-> IF rest.outcome = "run" THEN <<part>> \o rest.pattern ELSE <<>>,
                  tuples |-> IF rest.outcome = "run" THEN <<tuple>> \o rest.tuples ELSE <<>>]

(***************************************************************************)
(* ArgumentParser: arity patterns.                                         *)
(***************************************************************************)
\* the string regexpNargs of _getRegexpNargs before the RegExp is built
RegexpNargsSource(action) ==
    LET src == CASE action.nargs = "undefined" -> <<"(", "-", "*", "A", "-", "*", ")">>
                 [] action.nargs = OPTIONAL -> <<"(", "-", "*", "A", "?", "-", "*", ")">>
                 [] action.nargs = ZERO_OR_MORE -> <<"(", "-", "*", "[", "A", "-", "]", "*", ")">>
                 [] action.nargs = ONE_OR_MORE -> <<"(", "-", "*", "A", "[", "A", "-", "]", "*", ")">>
                 [] action.nargs = REMAINDER -> <<"(", "[", "-", "A", "O", "]", "*", ")">>
                 [] action.nargs = PARSER ->
                        <<"(", "-", "*", "A", "[", "-", "A", "O", "]", "*", ")">>
                 [] OTHER -> <<"(", "-", "*">> \o <<"A">>
                             \o stringRepeat(<<"-", "*", "A">>, NargsNum(action.nargs) - 1)
                             \o <<"-", "*", ")">>
    IN IF isOptional(action)
       THEN StringReplace(StringReplace(src, <<"-", "*">>, <<>>), <<"-">>, <<>>)
       ELSE src

\* new RegExp(regexpNargs) for the string src, kept with its source:
\* [threw, src, items]
RegExpRecord(src, items) ==
    [threw |-> items = ReSyntaxError, src |-> src, items |-> items]

\* _getRegexpNargs: [threw, src, items]
getRegexpNargs(action) ==
    RegExpRecord(RegexpNargsSource(action), NewRegExp(RegexpNargsSource(action)))

\* _matchArgument after 'var matches = regexpArgStrings.match(regexpNargs)':
\* [threw, count]
MatchedCount(threw, matches) ==
    IF threw \/ ~matches.matched THEN [threw |-> TRUE, count |-> 0]
    ELSE [threw |-> FALSE, count |-> matches.lengths[2]]

\* _matchArgument: [threw, count]
matchArgument(action, regexpArgStrings) ==
    MatchedCount(NewRegExp(RegexpNargsSource(action)) = ReSyntaxError,
                 StringMatch(regexpArgStrings, NewRegExp(RegexpNargsSource(action))))

\* the pattern string of _matchArgumentsPartial for a slice of actions:
\* Array.join converts every RegExp with toString, slashes included
RECURSIVE JoinRegexps(_)
JoinRegexps(actionSlice) ==
    IF actionSlice = <<>> THEN <<>>
    ELSE RegExpToString(RegexpNargsSource(Head(actionSlice))) \o JoinRegexps(Tail(actionSlice))

RECURSIVE MatchPartialFrom(_, _, _)

\* _matchArgumentsPartial, one iteration after
\* 'var matches = regexpArgStrings.match(pattern)'
SliceMatched(actions, regexpArgStrings, i, matches) ==
    IF matches.matched /\ Len(matches.lengths) > 0
    THEN [threw |-> FALSE, result |-> matches.lengths]
    ELSE MatchPartialFrom(actions, regexpArgStrings, i - 1)

\* _matchArgumentsPartial, one iteration: items is the expression built
\* from the pattern string of the first i actions
MatchSlice(actions, regexpArgStrings, i, items) ==
    IF items = ReSyntaxError
       \/ \E k \in 1..i : NewRegExp(RegexpNargsSource(actions[k])) = ReSyntaxError
    THEN [threw |-> TRUE, result |-> <<>>]
    ELSE SliceMatched(actions, regexpArgStrings, i, StringMatch(regexpArgStrings, items))

\* _matchArgumentsPartial, the loop from i down: [threw, result]
MatchPartialFrom(actions, regexpArgStrings, i) ==
    IF i <= 0 THEN [threw |-> FALSE, result |-> <<>>]
    ELSE MatchSlice(actions, regexpArgStrings, i,
                    NewRegExp(JoinRegexps(SubSeq(actions, 1, i))))

matchArgumentsPartial(actions, regexpArgStrings) ==
    MatchPartialFrom(actions, regexpArgStrings, Len(actions))

(***************************************************************************)
(* ArgumentParser: the matching loop.  The state of a parse is the record  *)
(* st = [startIndex, positionals, extras, namespace, actionsSeen,          *)
(*       actionsSeenNonDefault, calls, outcome]; indices count from 0 as   *)
(* in the code; outcome is "run" while the parse goes on, "throw" after an *)
(* exception, "error" after this.error (usage, message, exit status 2),    *)
(* "exit" after the exit of a help or version action.                      *)
(***************************************************************************)
\* argStrings.slice(from, to), indices from 0
Slice(q, from, to) ==
    SubSeq(q, from + 1, IF to < Len(q) THEN to ELSE Len(q))

\* argStringsPattern.substr(from)
Substr(q, from) == SubSeq(q, from + 1, Len(q))

\* consumeOptional, the branch of an explicit argument; explicit is the
\* result of _matchArgument(action, 'A')
ExplicitArgument(parser, st, action, optionTuple, explicit) ==
    IF explicit.threw THEN [st EXCEPT !.outcome = "throw"]
    \* this.prefixChars.forEach: a string has no method forEach
    ELSE IF explicit.count = 0 /\ optionTuple.optionString[2] \notin prefixChars
    THEN [st EXCEPT !.outcome = "throw"]
    ELSE IF explicit.count = 1
    THEN [takeAction(parser, st, action, <<optionTuple.argExplicit.s>>,
                     optionTuple.optionString)
            EXCEPT !.startIndex = st.startIndex + 1]
    ELSE [st EXCEPT !.outcome = "throw"]

\* consumeOptional, the branch without explicit argument; free is the
\* result of _matchArgument(action, argStringsPatternSelected)
FreeArguments(parser, argStrs, st, action, optionTuple, free) ==
    IF free.threw THEN [st EXCEPT !.outcome = "throw"]
    ELSE [takeAction(parser, st, action,
                     Slice(argStrs, st.startIndex + 1, st.startIndex + 1 + free.count),
                     optionTuple.optionString)
            EXCEPT !.startIndex = st.startIndex + 1 + free.count]

\* consumeOptional for the tuple at startIndex
ConsumeTuple(parser, argStrs, cls, st, optionTuple) ==
    IF optionTuple.action = 0
    THEN [st EXCEPT !.extras = Append(@, argStrs[st.startIndex + 1]),
                    !.startIndex = st.startIndex + 1]
    ELSE IF defined(optionTuple.argExplicit)
    THEN ExplicitArgument(parser, st, ActionById(parser, optionTuple.action), optionTuple,
                          matchArgument(ActionById(parser, optionTuple.action), <<"A">>))
    ELSE FreeArguments(parser, argStrs, st, ActionById(parser, optionTuple.action),
                       optionTuple,
                       matchArgument(ActionById(parser, optionTuple.action),
                                     Substr(cls.pattern, st.startIndex + 1)))

\* consumeOptional
consumeOptional(parser, argStrs, cls, st) ==
    ConsumeTuple(parser, argStrs, cls, st, cls.tuples[st.startIndex + 1])

\* the loop of consumePositionals over the positionals left, from the
\* i-th (from 0) on; argCounts[i] is element i of the array of lengths
RECURSIVE TakePositionals(_, _, _, _, _)
TakePositionals(parser, argStrs, argCounts, st, i) ==
    IF i >= Len(st.positionals) \/ st.outcome # "run" THEN st
    ELSE LET action == ActionById(parser, st.positionals[i + 1])
             argCount == IF i + 1 <= Len(argCounts) THEN argCounts[i + 1] ELSE 0
             args == Slice(argStrs, st.startIndex, st.startIndex + argCount)
             moved == [st EXCEPT !.startIndex = @ + argCount]
         IN TakePositionals(parser, argStrs, argCounts,
                            takeAction(parser, moved, action, args, <<>>), i + 1)

\* consumePositionals, 'positionals = positionals.slice(argCounts.length)'
DropTaken(taken, count) ==
    IF taken.outcome # "run" THEN taken
    ELSE [taken EXCEPT !.positionals = Drop(@, count)]

\* consumePositionals after 'var argCounts = this._matchArgumentsPartial(...)'
ConsumeCounted(parser, argStrs, st, argCounts) ==
    IF argCounts.threw THEN [st EXCEPT !.outcome = "throw"]
    ELSE DropTaken(TakePositionals(parser, argStrs, argCounts.result, st, 0),
                   Len(argCounts.result))

\* consumePositionals: the new state; its startIndex is the value returned
consumePositionals(parser, argStrs, cls, st) ==
    ConsumeCounted(parser, argStrs, st,
        matchArgumentsPartial(
            [k \in 1..Len(st.positionals) |-> ActionById(parser, st.positionals[k])],
            Substr(cls.pattern, st.startIndex)))

\* optionStringIndices.length - 1: the index of the last option, -1 if none
optionStringIndexMax(cls) ==
    LET opts == {i \in 1..Len(cls.tuples) : cls.tuples[i].kind = "option"}
    IN IF opts = {} THEN 0 - 1 ELSE (CHOOSE i \in opts : \A j \in opts : j <= i) - 1

\* the index of the first option at or after startIndex
optionStringIndexNext(cls, startIndex) ==
    LET opts == {i \in (startIndex + 1)..Len(cls.tuples) : cls.tuples[i].kind = "option"}
    IN (CHOOSE i \in opts : \A j \in opts : i <= j) - 1

\* SkipExtras without the tokens entered in the extras
SkipExtrasDropped(argStrs, cls, next, pos) ==
    IF cls.tuples[pos.startIndex + 1].kind # "option"
    THEN [pos EXCEPT !.startIndex = next]
    ELSE pos

\* the while loop of _parseArgsKnown: the tokens before the next option
\* that no positional took are extras
SkipExtras(argStrs, cls, next, pos) ==
    IF cls.tuples[pos.startIndex + 1].kind # "option"
    THEN [pos EXCEPT !.extras = @ \o Slice(argStrs, pos.startIndex, next),
                     !.startIndex = next]
    ELSE pos

\* the while loop of _parseArgsKnown after
\* 'positionalsEndIndex = consumePositionals(startIndex)'
AfterPositionals(parser, argStrs, cls, st, next, pos) ==
    IF pos.outcome # "run" \/ pos.startIndex > st.startIndex THEN pos
    ELSE consumeOptional(parser, argStrs, cls, SkipExtras(argStrs, cls, next, pos))

\* one iteration of the while loop of _parseArgsKnown
LoopBody(parser, argStrs, cls, st) ==
    IF st.startIndex # optionStringIndexNext(cls, st.startIndex)
    THEN AfterPositionals(parser, argStrs, cls, st,
                          optionStringIndexNext(cls, st.startIndex),
                          consumePositionals(parser, argStrs, cls, st))
    ELSE consumeOptional(parser, argStrs, cls, st)

RECURSIVE MainLoop(_, _, _, _)
MainLoop(parser, argStrs, cls, st) ==
    IF st.outcome # "run" \/ st.startIndex > optionStringIndexMax(cls) THEN st
    ELSE MainLoop(parser, argStrs, cls, LoopBody(parser, argStrs, cls, st))

actionsPositional(parser) ==
    SelectSeq(parser._actions, LAMBDA a : isPositional(a))

\* RequiredMissing without the test of the required actions
RequiredMissingNever(parser, st) == FALSE

\* the checks of _parseArgsKnown after the last consumePositionals
RequiredMissing(parser, st) ==
    \E i \in 1..Len(parser._actions) :
        parser._actions[i].required /\ ~InSeq(parser._actions[i].id, st.actionsSeen)

\* a required mutex group is reported when a member WAS seen ('if(found)')
RequiredGroupReported(parser, st) ==
    \E g \in 1..Len(parser._actionGroupsMutex) :
        /\ parser._actionGroupsMutex[g].required
        /\ \E i \in 1..Len(parser._actionGroupsMutex[g]._groupActions) :
              InSeq(parser._actionGroupsMutex[g]._groupActions[i], st.actionsSeenNonDefault)

\* _parseArgsKnown: the variables of a parse before the main loop
StartState(parser, namespace, cls) ==
    [startIndex |-> 0,
     positionals |-> [k \in 1..Len(actionsPositional(parser)) |->
                         actionsPositional(parser)[k].id],
     extras |-> <<>>, namespace |-> namespace, actionsSeen |-> <<>>,
     actionsSeenNonDefault |-> <<>>, calls |-> <<>>, outcome |-> "run",
     pattern |-> cls.pattern]

\* _parseArgsKnown: the checks after the extras are collected
FinalChecks(parser, final) ==
    IF Len(final.positionals) > 0 THEN [final EXCEPT !.outcome = "error"]
    ELSE IF RequiredMissing(parser, final) THEN [final EXCEPT !.outcome = "error"]
    ELSE IF RequiredGroupReported(parser, final) THEN [final EXCEPT !.outcome = "error"]
    ELSE [final EXCEPT !.outcome = "ok"]

\* _parseArgsKnown after the last consumePositionals
CollectExtras(parser, argStrs, last) ==
    IF last.outcome # "run" THEN last
    ELSE FinalChecks(parser, [last EXCEPT !.extras = @ \o Substr(argStrs, last.startIndex)])

\* _parseArgsKnown after the main loop
AfterLoop(parser, argStrs, cls, looped) ==
    IF looped.outcome # "run" THEN looped
    ELSE CollectExtras(parser, argStrs, consumePositionals(parser, argStrs, cls, looped))

\* _parseArgsKnown after the classification of the tokens
ParseClassified(parser, argStrs, namespace, cls) ==
    IF cls.outcome # "run"
    THEN [StartState(parser, namespace, cls) EXCEPT !.outcome = cls.outcome]
    ELSE AfterLoop(parser, argStrs, cls,
                   MainLoop(parser, argStrs, cls, StartState(parser, namespace, cls)))

\* _parseArgsKnown: the final state of the parse, with the pattern
parseArgsKnownInner(parser, argStrs, namespace) ==
    ParseClassified(parser, argStrs, namespace, Classify(parser, argStrs, 1, FALSE))

(***************************************************************************)
(* ArgumentParser: parseArgsKnown and parseArgs.  A result is the final    *)
(* state of the parse; outcome "ok" means that the call returned           *)
(* [namespace, extras] (parseArgsKnown) or namespace (parseArgs).          *)
(***************************************************************************)
NoResult ==
    [startIndex |-> 0, positionals |-> <<>>, extras |-> <<>>,
     namespace |-> EmptyNamespace, actionsSeen |-> <<>>,
     actionsSeenNonDefault |-> <<>>, calls |-> <<>>, outcome |-> "none",
     pattern |-> <<>>]

\* SeedDefaults without the conversion of a string default by the type
\* function of the action
RECURSIVE SeedDefaultsUnconverted(_, _, _)
SeedDefaultsUnconverted(parser, namespace, k) ==
    IF k > Len(parser._actions) THEN [threw |-> FALSE, namespace |-> namespace]
    ELSE LET action == parser._actions[k]
             key == action.destination.s
         IN IF /\ ~LooseEq(action.destination, Str(SUPPRESS), FALSE)
               /\ ~defined(NamespaceGet(namespace, key))
               /\ ~LooseEq(action.defaultValue, Str(SUPPRESS), FALSE)
            THEN SeedDefaultsUnconverted(parser,
                     NamespaceSet(namespace, key, action.defaultValue), k + 1)
            ELSE SeedDefaultsUnconverted(parser, namespace, k + 1)

\* the loop of parseArgsKnown that adds the defaults of the actions, from
\* action k on: [threw, namespace]
RECURSIVE SeedDefaults(_, _, _)
SeedDefaults(parser, namespace, k) ==
    IF k > Len(parser._actions) THEN [threw |-> FALSE, namespace |-> namespace]
    ELSE LET action == parser._actions[k]
             key == action.destination.s
             converted == IF action.defaultValue.t = "string"
                          THEN getValue(action, action.defaultValue.s)
                          ELSE [threw |-> FALSE, v |-> action.defaultValue]
         IN IF /\ ~LooseEq(action.destination, Str(SUPPRESS), FALSE)
               /\ ~defined(NamespaceGet(namespace, key))
               /\ ~LooseEq(action.defaultValue, Str(SUPPRESS), FALSE)
            THEN IF converted.threw THEN [threw |-> TRUE, namespace |-> namespace]
                 ELSE SeedDefaults(parser, NamespaceSet(namespace, key, converted.v), k + 1)
            ELSE SeedDefaults(parser, namespace, k + 1)

\* parseArgsKnown: 'try { return this._parseArgsKnown(args, namespace); }
\* catch (e) { this.error(e.message); }'
ReportException(inner) ==
    IF inner.outcome = "throw" THEN [inner EXCEPT !.outcome = "error"] ELSE inner

\* parseArgsKnown after the defaults are added; seeded is [threw, namespace]
ParseSeeded(parser, args, seeded) ==
    IF seeded.threw THEN [NoResult EXCEPT !.outcome = "throw"]
    ELSE ReportException(parseArgsKnownInner(parser, args, seeded.namespace))

\* parseArgsKnown with a fresh Namespace.  The parser-level defaults
\* (_defaults) are empty: setDefaults is not among the modelled operations.
parseArgsKnown(parser, args) ==
    ParseSeeded(parser, args, SeedDefaults(parser, EmptyNamespace, 1))

\* parseArgs after 'var result = this.parseArgsKnown(args, namespace)'
CheckExtras(result) ==
    IF result.outcome = "ok" /\ Len(result.extras) > 0
    THEN [result EXCEPT !.outcome = "error"]
    ELSE result

\* parseArgs without the test of the leftover tokens
parseArgsIgnoringExtras(parser, args) == parseArgsKnown(parser, args)

\* parseArgs
parseArgs(parser, args) == CheckExtras(parseArgsKnown(parser, args))

(***************************************************************************)
(* HelpFormatter and ArgumentParser.formatUsage.  The parser is made with  *)
(* {program: 'foo'} and without a usage override; no action has a help     *)
(* text, a metavar or choices.                                             *)
(***************************************************************************)
EOL == <<"\n">>

program == <<"f", "o", "o">>

\* HelpFormatter.initialize: this.width when COLUMNS is not set
width == 80 - 2

\* the characters of the class \s that the texts of the model can hold
Whitespace == {" ", "\n", "\t"}

\* _formatArgs, with the metavars of _metavarFormatter
formatArgs(action, metavarDefault) ==
    CASE action.nargs \in {"undefined", "0"} -> metavarDefault
      [] action.nargs = OPTIONAL -> <<"[">> \o metavarDefault \o <<"]">>
      [] action.nargs = ZERO_OR_MORE ->
             <<"[">> \o metavarDefault \o <<"[">> \o metavarDefault
                 \o <<" ", ".", ".", ".", "]", "]">>
      [] action.nargs = ONE_OR_MORE ->
             metavarDefault \o <<"[">> \o metavarDefault \o <<" ", ".", ".", ".", "]">>
      [] action.nargs = REMAINDER -> <<".", ".", ".">>
      [] action.nargs = PARSER -> metavarDefault \o <<" ", ".", ".", ".">>
      [] OTHER -> Join([k \in 1..NargsNum(action.nargs) |-> metavarDefault], <<" ">>)

\* _formatActionsUsage: the part of one action.  groupActions stays empty
\* ('actions.slice(start, end) == group._groupActions' compares two arrays
\* by identity), so no action counts as a member of a group
ActionUsagePart(action) ==
    IF isPositional(action) THEN formatArgs(action, action.destination.s)
    ELSE LET part == IF action.nargs = "0" THEN action.optionStrings[1]
                     ELSE action.optionStrings[1] \o <<" ">>
                          \o formatArgs(action, ToUpperCase(action.destination.s))
         IN IF ~action.required THEN <<"[">> \o part \o <<"]">> ELSE part

\* _formatActionsUsage: the four calls text.replace(string, string), whose
\* search strings are taken literally; '\1' is the character U+0001,
\* written "SOH"
CleanSeparators(text) ==
    StringReplace(
        StringReplace(
            StringReplace(
                StringReplace(text, <<"(", "[", "[", "(", "]", ")", " ">>, <<"SOH">>),
                <<" ", "(", "[", "]", ")", "]", ")">>, <<"SOH">>),
            <<"[", "[", "(", "]", " ", "*", "[", "]", ")", "]">>, <<>>),
        <<"(", "(", "[", "^", "|", "]", "*", ")", ")">>, <<"SOH">>)

\* _formatActionsUsage
formatActionsUsage(actions) ==
    stringStrip(
        CleanSeparators(
            Join(SelectSeq([k \in 1..Len(actions) |-> ActionUsagePart(actions[k])],
                           LAMBDA part : part # <<>>),
                 <<" ">>)),
        Whitespace)

\* _formatUsage after 'usage = usageString': a usage that does not fit in
\* the width reaches 'new Regexp(...)', an identifier declared nowhere
\* (ReferenceError)
WrapUsage(prefix, usage) ==
    IF Len(prefix) + Len(usage) > width
    THEN [threw |-> TRUE, text |-> <<>>]
    ELSE [threw |-> FALSE, text |-> prefix \o usage \o EOL \o EOL]

\* _formatUsage(undefined, actions, groups, undefined): [threw, text]
HelpFormatterFormatUsage(actions) ==
    IF Len(actions) = 0
    THEN [threw |-> FALSE,
          text |-> <<"u", "s", "a", "g", "e", ":", " ">> \o program \o EOL \o EOL]
    ELSE WrapUsage(<<"u", "s", "a", "g", "e", ":", " ">>,
                   program \o <<" ">>
                       \o formatActionsUsage(SelectSeq(actions, isOptional)
                                             \o SelectSeq(actions, isPositional)))

\* help.replace(this._regexpLongBreak, EOL + EOL): the first run of three
\* or more line ends becomes two
ReplaceLongBreak(help) ==
    LET starts == {i \in 1..(Len(help) - 2) :
                      help[i] = "\n" /\ help[i + 1] = "\n" /\ help[i + 2] = "\n"}
        first == CHOOSE i \in starts : \A j \in starts : i <= j
        after == CHOOSE e \in first..(Len(help) + 1) :
                    /\ \A j \in first..(e - 1) : help[j] = "\n"
                    /\ (e = Len(help) + 1 \/ help[e] # "\n")
    IN IF starts = {} THEN help
       ELSE SubSeq(help, 1, first - 1) \o EOL \o EOL \o SubSeq(help, after, Len(help))

\* HelpFormatter.formatHelp for a root section whose only item gave the
\* text itemHelp: _HelpSection.formatHelp joins [EOL, heading, itemHelp,
\* EOL], with no heading
HelpFormatterFormatHelp(itemHelp) ==
    IF itemHelp = <<>> THEN <<>>
    ELSE stringStrip(ReplaceLongBreak(EOL \o itemHelp \o EOL), {"\n"}) \o EOL

\* ArgumentParser.formatUsage after the item of addUsage is run: item is
\* [threw, text]
FormatItem(item) ==
    IF item.threw THEN item
    ELSE [threw |-> FALSE, text |-> HelpFormatterFormatHelp(item.text)]

\* ArgumentParser.formatUsage: [threw, text]
formatUsage(parser) == FormatItem(HelpFormatterFormatUsage(parser._actions))

(***************************************************************************)
(* The inputs of the exploration: option strings, tokens and the keyword   *)
(* arguments of the declarations, grouped in suites in the manner of the   *)
(* contexts of the test files (one parser per context).                    *)
(***************************************************************************)
tA == <<"-", "a">>
tB == <<"-", "b">>
tC == <<"-", "c">>
tABC == <<"-", "a", "b", "c">>
tF == <<"-", "f">>
tFoo == <<"-", "-", "f", "o", "o">>
tFooBar == <<"-", "-", "f", "o", "o", "-", "b", "a", "r">>
tFooBarBaz == <<"-", "-", "f", "o", "o", "-", "b", "a", "r", "-", "b", "a", "z">>
tFoobar == <<"-", "-", "f", "o", "o", "b", "a", "r">>
tFo == <<"-", "-", "f", "o">>
tFoob == <<"-", "-", "f", "o", "o", "b">>
tFeqV == <<"-", "f", "=", "v">>
tFooEqV == <<"-", "-", "f", "o", "o", "=", "v">>
tFeqVeqW == <<"-", "f", "=", "v", "=", "w">>
tV == <<"v">>
tW == <<"w">>
tD == <<"d">>
tN == <<"-", "n">>
tR == <<"-", "r">>
tH == <<"-", "h">>
tHelp == <<"-", "-", "h", "e", "l", "p">>
tX == <<"-", "x">>
tP == <<"p">>
tQ == <<"q">>
tNeg1 == <<"-", "1">>
tNeg2 == <<"-", "2">>
tDashDash == <<"-", "-">>
t2 == <<"2">>

Suites == {"store", "defaults", "mutex", "cluster", "abbrev", "delimiter",
           "arity", "negative", "required", "types",
           "subparsers", "append", "conflict", "resolve",
           "namespace", "usage", "destination", "formatter", "loop"}

WithDefault(kwargs, v) == [kwargs EXCEPT !.defaultValue = v]

WithNargs(kwargs, nargs) == [kwargs EXCEPT !.nargs = nargs]

DeclPool(s) ==
    CASE s = "store" ->
           {WithDefault(Kwargs(<<tF, tFoo>>, "store"), Str(tD)),
            Kwargs(<<tF>>, "store_true"),
            Kwargs(<<tA>>, "store_true"),
            Kwargs(<<tP>>, "store")}
      [] s = "defaults" ->
           {WithDefault(Kwargs(<<tF, tFoo>>, "store"), Str(tD)),
            [WithDefault(Kwargs(<<tN>>, "store"), Str(<<"2">>)) EXCEPT !.type = "callable"],
            [WithDefault(Kwargs(<<tX>>, "store"), Str(tV)) EXCEPT !.type = "callable"],
            [WithDefault(Kwargs(<<tR>>, "store"), Str(tD)) EXCEPT !.required = "true"],
            WithDefault(Kwargs(<<tH>>, "help"), Str(tD)),
            Kwargs(<<tA>>, "store_true"),
            WithDefault(Kwargs(<<tP>>, "store"), Str(tD))}
      [] s = "mutex" ->
           {Kwargs(<<tA>>, "store_true"),
            Kwargs(<<tB>>, "store_true"),
            WithDefault(Kwargs(<<tC>>, "store_constant"), Str(tD))}
      [] s = "cluster" ->
           {Kwargs(<<tA>>, "store_true"),
            Kwargs(<<tB>>, "store_true"),
            Kwargs(<<tC>>, "store_true")}
      [] s = "abbrev" ->
           {Kwargs(<<tFoo>>, "store"),
            Kwargs(<<tFoobar>>, "store")}
      [] s = "delimiter" ->
           {Kwargs(<<tP>>, "store"),
            Kwargs(<<tX>>, "store_true"),
            Kwargs(<<tF>>, "store")}
      [] s = "arity" ->
           {WithNargs(Kwargs(<<tP>>, "store"), REMAINDER),
            WithDefault(WithNargs(Kwargs(<<tQ>>, "store"), ZERO_OR_MORE), Str(tD)),
            WithNargs(Kwargs(<<tF>>, "store"), "2"),
            Kwargs(<<tX>>, "store_true")}
      [] s = "required" ->
           {[WithDefault(Kwargs(<<tR>>, "store"), Str(tD)) EXCEPT !.required = "true"],
            Kwargs(<<tH>>, "help"),
            Kwargs(<<tA>>, "store_true")}
      [] s = "types" ->
           {[Kwargs(<<tN>>, "store") EXCEPT !.type = "int"],
            [Kwargs(<<tF>>, "store") EXCEPT !.type = "float"],
            [Kwargs(<<tX>>, "store") EXCEPT !.type = "string"],
            [Kwargs(<<tA>>, "store") EXCEPT !.type = "auto"]}
      [] s = "subparsers" ->
           {Kwargs(<<tP>>, "parsers"),
            Kwargs(<<tA>>, "store_true")}
      [] s = "append" ->
           {Kwargs(<<tF>>, "append"),
            [Kwargs(<<tA>>, "append_constant") EXCEPT !.constant = Str(tV)],
            Kwargs(<<tX>>, "store_true")}
      [] s \in {"conflict", "resolve"} ->
           {Kwargs(<<tF, tFoo>>, "store"),
            Kwargs(<<tX, tF, tFoo>>, "store_true"),
            Kwargs(<<tFoo, tA>>, "store_true")}
      [] s \in {"namespace", "formatter"} -> {}
      [] s = "destination" ->
           {Kwargs(<<tX, tFooBar>>, "store_true"),
            Kwargs(<<tFooBarBaz>>, "store_true"),
            Kwargs(<<tA>>, "store"),
            Kwargs(<<tDashDash>>, "store_true")}
      [] s = "loop" ->
           {Kwargs(<<tF>>, "store"),
            Kwargs(<<tX>>, "store_true"),
            Kwargs(<<tP>>, "store")}
      [] s = "usage" ->
           {Kwargs(<<tH, tHelp>>, "help"),
            Kwargs(<<tX>>, "store_true"),
            Kwargs(<<tC>>, "count")}
      [] OTHER ->
           {Kwargs(<<tP>>, "store"),
            Kwargs(<<tNeg1>>, "store_true"),
            Kwargs(<<tX>>, "store_true")}

TokenPool(s) ==
    CASE s = "store" -> {tF, tFoo, tFeqV, tFooEqV, tFeqVeqW, tV}
      [] s = "defaults" -> {tF, tV}
      [] s = "mutex" -> {tA, tB, tC}
      [] s = "cluster" -> {tABC, tA, tB, tC}
      [] s = "abbrev" -> {tFo, tFoob, tFoo, tV}
      [] s = "delimiter" -> {tDashDash, tX, tV, tF}
      [] s = "arity" -> {tV, tX, tF, tDashDash}
      [] s = "required" -> {tR, tH, tA, tV}
      [] s = "types" -> {tN, tX, tA, t2, tV}
      [] s = "subparsers" -> {tV, tA}
      [] s = "append" -> {tF, tA, tX, tV}
      [] s \in {"conflict", "resolve"} -> {tF, tX}
      [] s \in {"namespace", "usage", "formatter"} -> {}
      [] s = "destination" -> {tX, tA}
      [] s = "loop" -> {tF, tX, tV}
      [] OTHER -> {tNeg1, tNeg2, tV}

\* the 'required' options handed to addArgumentGroup(options, true)
GroupPool(s) == IF s = "mutex" THEN {TRUE, FALSE} ELSE {}

RECURSIVE SeqsUpTo(_, _)
SeqsUpTo(S, k) ==
    IF k = 0 THEN {<<>>}
    ELSE LET shorter == SeqsUpTo(S, k - 1)
         IN shorter \cup {Append(q, x) : q \in shorter, x \in S}

(***************************************************************************)
(* The state machine.                                                      *)
(***************************************************************************)
\* HelpFormatter.initialize: the fields of a formatter.  A section is
\* [parent, items]; sections[1] is sectionRoot and 0 stands for undefined.
\* threw tells that the method last called on the formatter ended in an
\* exception
HelpFormatterInitialize ==
    [indentation |-> 2, indentationCurrent |-> 0, indentationLevel |-> 0,
     actionLengthMax |-> 0, sectionCurrent |-> 1,
     sections |-> <<[parent |-> 0, items |-> <<>>]>>,
     threw |-> FALSE]

\* What the caller last observed of a call outside the parse: op is the
\* method, threw tells that it ended in an exception, text is a returned
\* string, names the option strings an error message lists, v a returned
\* value and self tells that the object itself was returned.
NoReturn ==
    [op |-> "none", threw |-> FALSE, text |-> <<>>, names |-> <<>>,
     v |-> Undefined, self |-> FALSE]

Parser ==
    [_actions |-> _actions, _optionStringActions |-> _optionStringActions,
     _actionGroupsMutex |-> _actionGroupsMutex,
     _hasNegativeNumberOptionals |-> _hasNegativeNumberOptionals]

\* new ArgumentParser({...}) without help and without version, and
\* new Namespace()
\* the variables of the while loop of _parseArgsKnown during the call
\* parseArgsKnown(argStrings): st holds startIndex, extras, positionals and
\* the namespace; iterations counts the passes through the loop body
NoCursor == [stepping |-> FALSE, iterations |-> 0, st |-> NoResult]

Init ==
    /\ suite \in Suites
    /\ _actions = <<>>
    /\ _optionStringActions = [o \in {} |-> 0]
    /\ _actionGroupsMutex = <<>>
    /\ _hasNegativeNumberOptionals = <<>>
    /\ rejected = {}
    /\ argStrings = <<>>
    /\ called = {}
    /\ resultKnown = NoResult
    /\ resultArgs = NoResult
    /\ topic = EmptyNamespace
    /\ returned = NoReturn
    /\ formatter = HelpFormatterInitialize
    /\ cursor = NoCursor

\* _ActionContainer._addAction: the index after the option strings of
\* action are entered
IndexAction(optionStringActions, action) ==
    [o \in (DOMAIN optionStringActions) \cup {action.optionStrings[i] : i \in 1..Len(action.optionStrings)} |->
        IF \E i \in 1..Len(action.optionStrings) : action.optionStrings[i] = o
        THEN action.id
        ELSE optionStringActions[o]]

\* _ActionContainer._addAction: the flag list after the option strings of
\* action are looked at ('if(!this._hasNegativeNumberOptionals)' guards the push)
FlagNegativeNumber(flags, action) ==
    IF /\ \E i \in 1..Len(action.optionStrings) :
              MatchesRegexpNegativeNumber(action.optionStrings[i])
       /\ ~ArrayIsTruthy(flags)
    THEN Append(flags, TRUE)
    ELSE flags

\* Array.prototype.indexOf: the index from 0, -1 if absent
IndexOf(q, x) ==
    IF InSeq(x, q)
    THEN (CHOOSE i \in 1..Len(q) : q[i] = x /\ \A j \in 1..(i - 1) : q[j] # x) - 1
    ELSE 0 - 1

\* Array.prototype.splice(start) with one argument: every element from
\* start on is removed; a negative start counts from the end
SpliceFrom(q, start) ==
    LET from == IF start >= 0 THEN start
                ELSE IF Len(q) + start < 0 THEN 0 ELSE Len(q) + start
    IN SubSeq(q, 1, IF from < Len(q) THEN from ELSE Len(q))

\* _handleConflictError: the option strings that the message of the
\* ArgumentError lists, the first element of every conflict tuple
handleConflictErrorFirst(action, conflicts) == <<conflicts[1]>>

handleConflictError(action, conflicts) ==
    [k \in 1..Len(conflicts) |-> conflicts[k]]

\* _handleConflictResolve: the list of actions when it throws.  The
\* callback of forEach is not bound: after the splice on the option strings
\* of the prior action of the first conflict, 'delete
\* this._optionStringActions[optionString]' reads a property of undefined
\* (TypeError), so the index is not changed and no action is removed
handleConflictResolve(actions, optionStringActions, conflicts) ==
    [k \in 1..Len(actions) |->
        IF actions[k].id = optionStringActions[conflicts[1]]
        THEN [actions[k] EXCEPT
                !.optionStrings = SpliceFrom(@, IndexOf(@, conflicts[1]))]
        ELSE actions[k]]

\* the conflicts _checkConflict finds for a declaration that reaches it
ConflictsReached(built, group) ==
    IF built.threw \/ (group > 0 /\ built.action.required) THEN <<>>
    ELSE checkConflict(built.action, _optionStringActions)

\* addArgument that ends in an exception; conflicts are the option strings
\* that _checkConflict handed to the conflict handler (none if the
\* exception came before)
AddRejected(kwargs, action, conflicts) ==
    /\ kwargs \notin rejected
    /\ rejected' = rejected \cup {kwargs}
    /\ _actions' = IF Len(conflicts) > 0 /\ conflictHandler = "resolve"
                   THEN handleConflictResolve(_actions, _optionStringActions, conflicts)
                   ELSE _actions
    /\ returned' = IF Len(conflicts) > 0 /\ conflictHandler = "error"
                   THEN [NoReturn EXCEPT !.op = "addArgument", !.threw = TRUE,
                                         !.names = handleConflictError(action, conflicts)]
                   ELSE returned
    /\ UNCHANGED <<_optionStringActions, _actionGroupsMutex,
                   _hasNegativeNumberOptionals>>

\* the declaration kwargs was made: its action is in _actions
Declared(kwargs) ==
    \E k \in 1..Len(_actions) : _actions[k] = [BuildAction(kwargs).action EXCEPT !.id = k]

\* addArgument after 'var action = new actionClass(kwargs)' and the test of
\* the type: built is [threw, action].  The caller hands each declaration
\* of the suite to addArgument once: a declaration that was made, or that
\* threw, is not repeated.
AddBuilt(kwargs, group, built) ==
    /\ called = {}
    /\ ~Declared(kwargs)
    /\ Len(_actions) < MaxActions
    /\ kwargs \in DeclPool(suite)
    /\ group \in 0..Len(_actionGroupsMutex)
    /\ IF built.threw \/ AddActionThrows(built.action, group, _optionStringActions)
       THEN AddRejected(kwargs, built.action, ConflictsReached(built, group))
       ELSE /\ _actions' = Append(_actions, [built.action EXCEPT !.id = Len(_actions) + 1])
            /\ _optionStringActions' =
                  IndexAction(_optionStringActions,
                              [built.action EXCEPT !.id = Len(_actions) + 1])
            /\ _hasNegativeNumberOptionals' =
                  FlagNegativeNumber(_hasNegativeNumberOptionals, built.action)
            /\ _actionGroupsMutex' =
                  [g \in 1..Len(_actionGroupsMutex) |->
                     IF g = group
                     THEN [_actionGroupsMutex[g] EXCEPT
                             !._groupActions = Append(@, Len(_actions) + 1)]
                     ELSE _actionGroupsMutex[g]]
            /\ UNCHANGED <<rejected, returned>>
    /\ UNCHANGED <<suite, argStrings, called, resultKnown, resultArgs, topic, formatter, cursor>>

\* addArgument on the parser (group = 0) or on mutex group number 'group'
addArgument(kwargs, group) == AddBuilt(kwargs, group, BuildAction(kwargs))

\* addArgumentGroup(options, true): a new _MutuallyExclusiveGroup
addArgumentGroup(required) ==
    /\ called = {}
    /\ Len(_actionGroupsMutex) < MaxGroups
    /\ required \in GroupPool(suite)
    /\ _actionGroupsMutex' =
          Append(_actionGroupsMutex, [required |-> required, _groupActions |-> <<>>])
    /\ UNCHANGED <<suite, _actions, _optionStringActions, _hasNegativeNumberOptionals,
                   rejected, argStrings, called, resultKnown, resultArgs,
                   topic, returned, formatter, cursor>>

\* the keyword arguments handed to addSubparsers
SubparsersPool(s) ==
    IF s = "subparsers"
    THEN {[Kwargs(<<>>, "parsers") EXCEPT !.destination = Str(<<"c", "m", "d">>)]}
    ELSE {}

\* this._subparsers after ArgumentParser.initialize: the empty array, which
\* $defined takes as 'subparsers were added'
subparsersDefined == defined(EmptyArray)

\* addSubparsers(kwargs): the first statement calls this.error('Cannot have
\* multiple subparser arguments.'), which prints the usage and exits; no
\* action is made and the parser is unchanged
addSubparsers(kwargs) ==
    /\ called = {}
    /\ kwargs \in SubparsersPool(suite)
    /\ kwargs \notin rejected
    /\ subparsersDefined
    /\ rejected' = rejected \cup {kwargs}
    /\ UNCHANGED <<suite, _actions, _optionStringActions, _actionGroupsMutex,
                   _hasNegativeNumberOptionals, argStrings, called, resultKnown,
                   resultArgs, topic, returned, formatter, cursor>>

\* the keys and the values of the calls on the Namespace 'topic'
NamespaceKeys(s) == IF s = "namespace" THEN {<<"x">>, <<"y">>} ELSE {}

NamespaceValues == {Num(1), Num(2)}

\* the methods the class Namespace defines
NamespaceMethods == {"initialize", "set", "get"}

\* topic.set(key, v): 'this[key] = value; return this'
CallNamespaceSet(key, v) ==
    /\ key \in NamespaceKeys(suite)
    /\ topic' = NamespaceSet(topic, key, v)
    /\ returned' = [NoReturn EXCEPT !.op = "set", !.names = <<key>>, !.self = TRUE]
    /\ UNCHANGED <<suite, _actions, _optionStringActions, _actionGroupsMutex,
                   _hasNegativeNumberOptionals, rejected, argStrings, called,
                   resultKnown, resultArgs, formatter, cursor>>

\* topic.get(key): 'return this[key]'
CallNamespaceGet(key) ==
    /\ key \in NamespaceKeys(suite)
    /\ returned' = [NoReturn EXCEPT !.op = "get", !.names = <<key>>,
                                    !.v = NamespaceGet(topic, key)]
    /\ UNCHANGED <<suite, _actions, _optionStringActions, _actionGroupsMutex,
                   _hasNegativeNumberOptionals, rejected, argStrings, called,
                   resultKnown, resultArgs, topic, formatter, cursor>>

\* topic.isset(key), topic.unset(key), topic.keys(), topic.values(): the
\* class has no such method, the property read gives undefined and the call
\* of undefined is a TypeError; the Namespace is not changed
CallNamespaceMethod(method, key) ==
    /\ key \in NamespaceKeys(suite)
    /\ method \notin NamespaceMethods
    /\ returned' = [NoReturn EXCEPT !.op = method, !.names = <<key>>, !.threw = TRUE]
    /\ UNCHANGED <<suite, _actions, _optionStringActions, _actionGroupsMutex,
                   _hasNegativeNumberOptionals, rejected, argStrings, called,
                   resultKnown, resultArgs, topic, formatter, cursor>>

\* HelpFormatter._indent
indent(f) ==
    [f EXCEPT !.indentationCurrent = @ + f.indentation,
              !.indentationLevel = @ + 1]

\* a _dedent that leaves indentationCurrent alone
dedentLevelOnly(f) ==
    [f EXCEPT !.indentationLevel = @ - 1,
              !.threw = f.indentationCurrent - f.indentation < 0]

\* HelpFormatter._dedent: the assertion comes after the assignments
dedent(f) ==
    [f EXCEPT !.indentationCurrent = @ - f.indentation,
              !.indentationLevel = @ - 1,
              !.threw = f.indentationCurrent - f.indentation < 0]

\* HelpFormatter._addItem: this.sectionCurrent.addItem(callback); a
\* formatter whose sectionCurrent is undefined ends in a TypeError
addItem(f, item) ==
    IF f.sectionCurrent = 0 THEN [f EXCEPT !.threw = TRUE]
    ELSE [f EXCEPT !.sections[f.sectionCurrent].items = Append(@, item)]

\* HelpFormatter._formatActionInvocation
formatActionInvocation(action) ==
    IF isPositional(action) THEN action.destination.s
    ELSE IF action.nargs = "0" THEN Join(action.optionStrings, <<",", " ">>)
    ELSE Join([i \in 1..Len(action.optionStrings) |->
                  action.optionStrings[i] \o <<" ">>
                      \o formatArgs(action, ToUpperCase(action.destination.s))],
              <<",", " ">>)

\* the number of sections above section s
RECURSIVE SectionDepth(_, _)
SectionDepth(f, s) ==
    IF s = 0 \/ f.sections[s].parent = 0 THEN 0
    ELSE 1 + SectionDepth(f, f.sections[s].parent)

\* the sections and the items a formatter is given
MaxSections == 3

MaxItems == 2

\* the number of items the sections of f hold, the callbacks of
\* startSection aside
ItemsAdded(f) ==
    SumSeq([s \in 1..Len(f.sections) |->
               Len(SelectSeq(f.sections[s].items, LAMBDA item : item # "section"))])

\* the actions handed to HelpFormatter.addArgument
FormatterActions ==
    {BuildAction(Kwargs(<<tX>>, "store_true")).action,
     BuildAction(Kwargs(<<tF, tFoo>>, "store")).action}

\* a call on the formatter that leaves the formatter f
FormatterCall(f) ==
    /\ suite = "formatter"
    /\ formatter' = f
    /\ UNCHANGED <<suite, _actions, _optionStringActions, _actionGroupsMutex,
                   _hasNegativeNumberOptionals, rejected, argStrings, called,
                   resultKnown, resultArgs, topic, returned, cursor>>

\* HelpFormatter.startSection: the callback goes to the items of the new
\* section, which is already the current one
startSection ==
    /\ Len(formatter.sections) < MaxSections
    /\ FormatterCall(
          addItem([indent(formatter) EXCEPT
                      !.threw = FALSE,
                      !.sections = Append(@, [parent |-> formatter.sectionCurrent,
                                              items |-> <<>>]),
                      !.sectionCurrent = Len(formatter.sections) + 1],
                  "section"))

\* HelpFormatter.endSection: 'this.sectionCurrent.parent' of an undefined
\* sectionCurrent ends in a TypeError
endSection ==
    FormatterCall(
        IF formatter.sectionCurrent = 0 THEN [formatter EXCEPT !.threw = TRUE]
        ELSE dedent([formatter EXCEPT
                        !.sectionCurrent = formatter.sections[formatter.sectionCurrent].parent]))

\* HelpFormatter.addText and addUsage, for a text and a usage that are
\* not SUPPRESS
addTextOrUsage(op) ==
    /\ ItemsAdded(formatter) < MaxItems
    /\ FormatterCall(addItem([formatter EXCEPT !.threw = FALSE],
                                 IF op = "addText" THEN "text" ELSE "usage"))

\* HelpFormatter.addArgument(action), for an action without help text and
\* without sub-actions
HelpFormatterAddArgument(action) ==
    /\ ItemsAdded(formatter) < MaxItems
    /\ FormatterCall(
          addItem([formatter EXCEPT
                      !.threw = FALSE,
                      !.actionLengthMax =
                          IF Len(formatActionInvocation(action)) + formatter.indentationCurrent > @
                          THEN Len(formatActionInvocation(action)) + formatter.indentationCurrent
                          ELSE @],
                  "argument"))

\* _HelpSection.formatHelp of section s, as far as the fields of the
\* formatter go: the callback of a 'section' item reads
\* this._sectionCurrent, a field that does not exist (TypeError)
SectionFormatHelp(f, s) ==
    LET entered == IF f.sections[s].parent # 0 THEN indent(f) ELSE f
    IN IF InSeq("section", f.sections[s].items) THEN [entered EXCEPT !.threw = TRUE]
       ELSE IF f.sections[s].parent # 0 THEN dedent(entered)
       ELSE entered

\* HelpFormatter.formatHelp: var help = this.sectionRoot.formatHelp()
HelpFormatterCallFormatHelp ==
    FormatterCall(SectionFormatHelp([formatter EXCEPT !.threw = FALSE], 1))

\* parser.formatUsage()
CallFormatUsage ==
    /\ suite = "usage"
    /\ called = {}
    /\ returned' = [NoReturn EXCEPT !.op = "formatUsage",
                                    !.threw = formatUsage(Parser).threw,
                                    !.text = formatUsage(Parser).text]
    /\ UNCHANGED <<suite, _actions, _optionStringActions, _actionGroupsMutex,
                   _hasNegativeNumberOptionals, rejected, argStrings, called,
                   resultKnown, resultArgs, topic, formatter, cursor>>

\* the token classification of the call in progress
CursorTuples == Classify(Parser, argStrings, 1, FALSE)

\* _parseArgsKnown up to 'var startIndex = 0': the defaults are in the
\* namespace and every token is classified
StartMainLoop ==
    /\ suite = "loop"
    /\ "parseArgsKnown" \in called
    /\ ~cursor.stepping
    /\ ~SeedDefaults(Parser, EmptyNamespace, 1).threw
    /\ CursorTuples.outcome = "run"
    /\ cursor' = [stepping |-> TRUE, iterations |-> 0,
                  st |-> StartState(Parser, SeedDefaults(Parser, EmptyNamespace, 1).namespace,
                                    CursorTuples)]
    /\ UNCHANGED <<suite, _actions, _optionStringActions, _actionGroupsMutex,
                   _hasNegativeNumberOptionals, rejected, argStrings, called,
                   resultKnown, resultArgs, topic, returned, formatter>>

\* 'while (startIndex <= optionStringIndexMax)' holds
LoopCondition(st, cls) ==
    st.outcome = "run" /\ st.startIndex <= optionStringIndexMax(cls)

\* a pass through the loop body that leaves the variables of the loop as
\* they are
LoopBodyStay(parser, argStrs, cls, st) == st

\* one pass through the body of the while loop of _parseArgsKnown
MainLoopPass(next) ==
    /\ cursor.stepping
    /\ cursor.iterations <= Len(argStrings)
    /\ LoopCondition(cursor.st, CursorTuples)
    /\ cursor' = [cursor EXCEPT !.iterations = @ + 1, !.st = next]
    /\ UNCHANGED <<suite, _actions, _optionStringActions, _actionGroupsMutex,
                   _hasNegativeNumberOptionals, rejected, argStrings, called,
                   resultKnown, resultArgs, topic, returned, formatter>>

\* a pass that does not move the cursor
MainLoopStepStay == MainLoopPass(LoopBodyStay(Parser, argStrings, CursorTuples, cursor.st))

\* the while loop of _parseArgsKnown makes one pass
MainLoopStep == MainLoopPass(LoopBody(Parser, argStrings, CursorTuples, cursor.st))

\* the token lists a call may be given: the first call chooses the list,
\* the second is given the same list
ArgChoices ==
    IF called = {} THEN SeqsUpTo(TokenPool(suite), MaxArgs) ELSE {argStrings}

\* a call of parseArgsKnown(args) that empties the option-string index
CallParseArgsKnownForgetting(args) ==
    /\ "parseArgsKnown" \notin called
    /\ args \in ArgChoices
    /\ argStrings' = args
    /\ called' = called \cup {"parseArgsKnown"}
    /\ resultKnown' = parseArgsKnown(Parser, args)
    /\ _optionStringActions' = [o \in {} |-> 0]
    /\ UNCHANGED <<suite, _actions, _actionGroupsMutex,
                   _hasNegativeNumberOptionals, rejected, resultArgs,
                   topic, returned, formatter, cursor>>

\* a call of parseArgsKnown(args)
CallParseArgsKnown(args) ==
    /\ "parseArgsKnown" \notin called
    /\ args \in ArgChoices
    /\ argStrings' = args
    /\ called' = called \cup {"parseArgsKnown"}
    /\ resultKnown' = parseArgsKnown(Parser, args)
    /\ UNCHANGED <<suite, _actions, _optionStringActions, _actionGroupsMutex,
                   _hasNegativeNumberOptionals, rejected, resultArgs,
                   topic, returned, formatter, cursor>>

\* a call of parseArgs(args)
CallParseArgs(args) ==
    /\ "parseArgs" \notin called
    /\ args \in ArgChoices
    /\ argStrings' = args
    /\ called' = called \cup {"parseArgs"}
    /\ resultArgs' = parseArgs(Parser, args)
    /\ UNCHANGED <<suite, _actions, _optionStringActions, _actionGroupsMutex,
                   _hasNegativeNumberOptionals, rejected, resultKnown,
                   topic, returned, formatter, cursor>>

Next ==
    \/ \E kwargs \in DeclPool(suite), group \in 0..MaxGroups : addArgument(kwargs, group)
    \/ \E required \in BOOLEAN : addArgumentGroup(required)
    \/ \E kwargs \in SubparsersPool(suite) : addSubparsers(kwargs)
    \/ CallFormatUsage
    \/ startSection
    \/ endSection
    \/ \E op \in {"addText", "addUsage"} : addTextOrUsage(op)
    \/ \E action \in FormatterActions : HelpFormatterAddArgument(action)
    \/ HelpFormatterCallFormatHelp
    \/ \E key \in NamespaceKeys(suite), v \in NamespaceValues : CallNamespaceSet(key, v)
    \/ \E key \in NamespaceKeys(suite) : CallNamespaceGet(key)
    \/ \E method \in {"isset", "unset", "keys", "values"}, key \in NamespaceKeys(suite) :
          CallNamespaceMethod(method, key)
    \/ StartMainLoop
    \/ MainLoopStep
    \/ \E args \in ArgChoices : CallParseArgsKnown(args)
    \/ \E args \in ArgChoices : CallParseArgs(args)

Spec == Init /\ [][Next]_vars

(***************************************************************************)
(* Properties.  A call of parseArgs or parseArgsKnown leaves its result in *)
(* resultArgs or resultKnown; argStrings is the token list of the call.    *)
(***************************************************************************)

\* C1: for an optional action A with the default arity of one value, each
\* option string s of A and a value v without whitespace that does not
\* begin with a prefix character, parseArgs([s + '=' + v]) returns a
\* Namespace equal to the one parseArgs([s, v]) returns, and A.destination
\* holds v in it.
C1_ExplicitValueEqualsSeparateValue ==
    \A k \in 1..Len(_actions) :
        \A i \in 1..Len(_actions[k].optionStrings) :
            LET A == _actions[k]
                s == A.optionStrings[i]
                separate == parseArgs(Parser, <<s, tV>>)
            IN (/\ "parseArgs" \in called
                /\ A.cls = "store"
                /\ A.nargs = "undefined"
                /\ argStrings = <<s \o <<"=">> \o tV>>
                /\ separate.outcome = "ok")
               => /\ resultArgs.outcome = "ok"
                  /\ resultArgs.namespace = separate.namespace
                  /\ NamespaceGet(resultArgs.namespace, A.destination.s) = Str(tV)

C3_ParseArgsErrorsIffKnownErrorsOrExtras ==
    called = {"parseArgsKnown", "parseArgs"} =>
        /\ (resultArgs.outcome = "error") <=>
              \/ resultKnown.outcome = "error"
              \/ (resultKnown.outcome = "ok" /\ Len(resultKnown.extras) > 0)
        /\ (resultKnown.outcome = "ok" /\ Len(resultKnown.extras) = 0) =>
              /\ resultArgs.outcome = "ok"
              /\ resultArgs.namespace = resultKnown.namespace
        /\ resultKnown.outcome \notin {"ok", "error"} =>
              resultArgs.outcome = resultKnown.outcome

\* C3, the case reached: parseArgsKnown returned a Namespace and a leftover
\* token, and parseArgs on the same tokens ended in a parse error
C3_Witness ==
    /\ called = {"parseArgsKnown", "parseArgs"}
    /\ resultKnown.outcome = "ok"
    /\ Len(resultKnown.extras) > 0
    /\ Len(resultKnown.calls) > 0
    /\ resultArgs.outcome = "error"

\* C4: in a parser whose actions are optionals that are not required, for a
\* mutex group with two zero-arity members X and Y whose value when given
\* differs from their default, parseArgs([X, Y]) ends in a parse error and
\* parseArgs([X]) returns; and for two such actions that are in no mutex
\* group, parseArgs([X, Y]) returns.
C4_MutexGroupRejectsBoth ==
    \A x, y \in 1..Len(_actions) :
        LET X == _actions[x]
            Y == _actions[y]
            zeroArity(a) == /\ a.cls \in {"store_true", "store_constant"}
                            /\ a.constant # a.defaultValue
            together == \E g \in 1..Len(_actionGroupsMutex) :
                            /\ InSeq(X.id, _actionGroupsMutex[g]._groupActions)
                            /\ InSeq(Y.id, _actionGroupsMutex[g]._groupActions)
            grouped(a) == \E g \in 1..Len(_actionGroupsMutex) :
                              InSeq(a.id, _actionGroupsMutex[g]._groupActions)
        IN (/\ "parseArgs" \in called
            /\ x # y
            /\ \A k \in 1..Len(_actions) : isOptional(_actions[k]) /\ ~_actions[k].required
            /\ zeroArity(X)
            /\ zeroArity(Y))
           => /\ (together /\ argStrings = <<X.optionStrings[1], Y.optionStrings[1]>>)
                    => resultArgs.outcome = "error"
              /\ (together /\ argStrings = <<X.optionStrings[1]>>)
                    => resultArgs.outcome = "ok"
              /\ (~grouped(X) /\ ~grouped(Y)
                    /\ argStrings = <<X.optionStrings[1], Y.optionStrings[1]>>)
                    => resultArgs.outcome = "ok"

\* C5: with the zero-arity options -a, -b and -c declared, parseArgs(["-abc"])
\* invokes the same actions in the same order as parseArgs(["-a", "-b", "-c"])
\* and returns an equal Namespace.
C5_ClusterEqualsSeparateOptions ==
    LET separate == parseArgs(Parser, <<tA, tB, tC>>)
        invoked(result) == [k \in 1..Len(result.calls) |-> result.calls[k].action]
    IN (/\ "parseArgs" \in called
        /\ argStrings = <<tABC>>
        /\ {tA, tB, tC} \subseteq DOMAIN _optionStringActions
        /\ \A k \in 1..Len(_actions) : _actions[k].cls = "store_true"
        /\ separate.outcome = "ok")
       => /\ resultArgs.outcome = "ok"
          /\ invoked(resultArgs) = invoked(separate)
          /\ resultArgs.namespace = separate.namespace

\* C6: with the long options --foo and --foobar declared, parseArgs(["--fo"])
\* ends in a parse error (the model keeps no message texts, so the part of
\* the claim about the names in the message is not in the formula), and
\* parseArgs(["--foob", "v"]) returns after one invocation, of the action of
\* --foobar, with v at its destination.
C6_AbbreviationResolvesOrIsAmbiguous ==
    (/\ "parseArgs" \in called
     /\ DOMAIN _optionStringActions = {tFoo, tFoobar})
    => /\ argStrings = <<tFo>> => resultArgs.outcome = "error"
       /\ argStrings = <<tFoob, tV>> =>
             /\ resultArgs.outcome = "ok"
             /\ Len(resultArgs.calls) = 1
             /\ resultArgs.calls[1].action = _optionStringActions[tFoobar]
             /\ NamespaceGet(resultArgs.namespace,
                             ActionById(Parser, _optionStringActions[tFoobar]).destination.s)
                   = Str(tV)

\* C7: in a parser with one positional of the default arity, the optional -x
\* and no required optional, parseArgs(["--", "-x"]) returns with "-x" at
\* the destination of the positional, the action of -x is not invoked, and
\* no invoked action receives "--" as its value.
C7_DelimiterMakesPositionals ==
    \A p \in 1..Len(_actions) :
        (/\ "parseArgs" \in called
         /\ argStrings = <<tDashDash, tX>>
         /\ isPositional(_actions[p])
         /\ _actions[p].nargs = "undefined"
         /\ Len(actionsPositional(Parser)) = 1
         /\ tX \in DOMAIN _optionStringActions
         /\ \A k \in 1..Len(_actions) : isOptional(_actions[k]) => ~_actions[k].required)
        => /\ resultArgs.outcome = "ok"
           /\ NamespaceGet(resultArgs.namespace, _actions[p].destination.s) = Str(tX)
           /\ \A k \in 1..Len(resultArgs.calls) :
                 /\ resultArgs.calls[k].action # _optionStringActions[tX]
                 /\ resultArgs.calls[k].values # Str(tDashDash)

\* C8: an action with REMAINDER arity can be declared, and once its first
\* value is reached (here the first token of the input) parseArgsKnown
\* delivers every token of the input to it, in input order, and returns no
\* leftover tokens.
C8_RemainderTakesEveryRemainingToken ==
    /\ \A kwargs \in rejected : kwargs.nargs # REMAINDER
    /\ \A p \in 1..Len(_actions) :
          (/\ "parseArgsKnown" \in called
           /\ _actions[p].nargs = REMAINDER
           /\ Len(actionsPositional(Parser)) = 1
           /\ Len(argStrings) > 0
           /\ argStrings[1] = tV)
          => /\ resultKnown.outcome = "ok"
             /\ resultKnown.extras = <<>>
             /\ \E k \in 1..Len(resultKnown.calls) :
                   /\ resultKnown.calls[k].action = _actions[p].id
                   /\ resultKnown.calls[k].args = argStrings

\* C9: a token that looks like a negative number ("-1", "-2") and is no
\* declared option string is classified as a positional value ('A') when no
\* declared option string looks like a negative number, and as an optional
\* ('O') when one does.
C9_NegativeNumberClassification ==
    \A t \in {tNeg1, tNeg2} :
        (/\ "parseArgsKnown" \in called
         /\ argStrings = <<t>>
         /\ t \notin DOMAIN _optionStringActions)
        => resultKnown.pattern =
              IF {tNeg1, tNeg2} \cap DOMAIN _optionStringActions = {}
              THEN <<"A">>
              ELSE <<"O">>

\* C10: a positional with arity '*' and a default can be declared, and
\* parseArgs([]) on a parser with such a positional as its only action
\* returns with the default, not an empty list, at its destination.
C10_StarPositionalKeepsDefault ==
    /\ \A kwargs \in rejected :
          ~(/\ IsPositionalArgs(kwargs.args)
            /\ kwargs.nargs = ZERO_OR_MORE
            /\ defined(kwargs.defaultValue))
    /\ \A p \in 1..Len(_actions) :
          (/\ "parseArgs" \in called
           /\ argStrings = <<>>
           /\ isPositional(_actions[p])
           /\ _actions[p].nargs = ZERO_OR_MORE
           /\ defined(_actions[p].defaultValue)
           /\ Len(_actions) = 1)
          => /\ resultArgs.outcome = "ok"
             /\ NamespaceGet(resultArgs.namespace, _actions[p].destination.s)
                   = _actions[p].defaultValue

C12_TypedValueIsConverted ==
    /\ \A kwargs \in rejected : kwargs.type \notin {"int", "float", "string"}
    /\ \A k \in 1..Len(_actions) :
          LET A == _actions[k]
              s == A.optionStrings[1]
          IN ("parseArgs" \in called /\ isOptional(A) /\ A.cls = "store")
             => /\ (A.type = "int" /\ argStrings = <<s, t2>>)
                      => /\ resultArgs.outcome = "ok"
                         /\ NamespaceGet(resultArgs.namespace, A.destination.s) = Num(2)
                /\ (A.type \in {"int", "float"} /\ argStrings = <<s, tV>>)
                      => resultArgs.outcome = "error"
                /\ (A.type = "string" /\ argStrings = <<s, tV>>)
                      => /\ resultArgs.outcome = "ok"
                         /\ NamespaceGet(resultArgs.namespace, A.destination.s) = Str(tV)

\* C13: a subparsers action can be declared (by addSubparsers, or by
\* addArgument with the action 'parsers'), and when parseArgs invokes it on
\* the values [name, rest...] the call returns with the name at the
\* destination of the action (unless that is SUPPRESS) and with every value
\* written before the delegation kept.
C13_SubparsersDelegation ==
    /\ \A kwargs \in rejected : kwargs.action # "parsers"
    /\ \A k \in 1..Len(_actions) :
          LET P == _actions[k]
              before == SeedDefaults(Parser, EmptyNamespace, 1).namespace
          IN (/\ "parseArgs" \in called
              /\ P.cls = "parsers"
              /\ Len(argStrings) > 0
              /\ argStrings[1] = tV)
             => /\ resultArgs.outcome = "ok"
                /\ P.destination # Str(SUPPRESS)
                      => NamespaceGet(resultArgs.namespace, P.destination.s) = Str(tV)
                /\ \A key \in DOMAIN before :
                      key # P.destination.s
                         => NamespaceGet(resultArgs.namespace, key) = before[key]

\* C14: an append action can be made, and in a parse that starts with no
\* value at its destination every invocation of it returns: after the
\* invocations with the values v1..vn the call has ended normally, the
\* destination holds a list and no other key of the Namespace has changed.
C14_AppendCollectsInCallOrder ==
    /\ \A kwargs \in rejected : kwargs.action # "append"
    /\ \A k \in 1..Len(_actions) :
          LET A == _actions[k]
              before == SeedDefaults(Parser, EmptyNamespace, 1).namespace
          IN (/\ "parseArgsKnown" \in called
              /\ A.cls = "append"
              /\ ~defined(A.defaultValue)
              /\ Len(argStrings) > 0
              /\ \A i \in 1..Len(argStrings) :
                    argStrings[i] = IF i % 2 = 1 THEN A.optionStrings[1] ELSE tV)
             => /\ resultKnown.outcome = "ok"
                /\ NamespaceGet(resultKnown.namespace, A.destination.s).t = "array"
                /\ \A key \in DOMAIN before :
                      key # A.destination.s
                         => NamespaceGet(resultKnown.namespace, key) = before[key]

\* C15: for an optional action A with the default arity of one value and an
\* option string s of A, parseArgs([s + '=v=w']) returns with v, the text
\* between the first and the second '=', at A.destination.
C15_ExplicitValueStopsAtSecondEquals ==
    \A k \in 1..Len(_actions) :
        \A i \in 1..Len(_actions[k].optionStrings) :
            LET A == _actions[k]
                s == A.optionStrings[i]
            IN (/\ "parseArgs" \in called
                /\ A.cls = "store"
                /\ A.nargs = "undefined"
                /\ Len(_actions) = 1
                /\ argStrings = <<s \o <<"=">> \o tV \o <<"=">> \o tW>>)
               => /\ resultArgs.outcome = "ok"
                  /\ NamespaceGet(resultArgs.namespace, A.destination.s) = Str(tV)

\* C16: for the parser of program 'foo', formatUsage() with no declared
\* action returns "usage: foo" and one line end; when the declared actions
\* are optionals that are not required and take no value (store_constant,
\* store_true, store_false, append_constant, count, help, version), it
\* returns "usage: foo", then for each action in declaration order a space
\* and the first option string in square brackets, then one line end.
C16_UsageListsZeroArityOptionals ==
    [][LET zeroArity == {"store_constant", "store_true", "store_false",
                         "append_constant", "count", "help", "version"}
           brackets == [k \in 1..Len(_actions) |->
                           <<" ", "[">> \o _actions[k].optionStrings[1] \o <<"]">>]
       IN (/\ returned' # returned
           /\ returned'.op = "formatUsage"
           /\ \A k \in 1..Len(_actions) :
                 /\ isOptional(_actions[k])
                 /\ ~_actions[k].required
                 /\ _actions[k].cls \in zeroArity)
          => /\ ~returned'.threw
             /\ returned'.text = <<"u", "s", "a", "g", "e", ":", " ", "f", "o", "o">>
                                     \o Join(brackets, <<>>) \o <<"\n">>]_vars

\* C17: under the 'error' conflict handler, a call of addArgument whose
\* action is built and has an option string that is already in the
\* option-string index ends in an error whose message lists every
\* conflicting option string, and leaves the action list and the index as
\* they were; and no call adds an action with an option string that is
\* already in the index.
C17_ConflictErrorLeavesContainerUnchanged ==
    [][conflictHandler = "error" =>
         /\ \A kwargs \in DeclPool(suite) :
               LET conflicts == checkConflict(BuildAction(kwargs).action,
                                              _optionStringActions)
               IN (/\ kwargs \notin rejected
                   /\ kwargs \in rejected'
                   /\ ~BuildAction(kwargs).threw
                   /\ Len(conflicts) > 0)
                  => /\ returned'.op = "addArgument"
                     /\ returned'.threw
                     /\ {returned'.names[i] : i \in 1..Len(returned'.names)} =
                           {o \in DOMAIN _optionStringActions :
                               InSeq(o, BuildAction(kwargs).action.optionStrings)}
                     /\ _actions' = _actions
                     /\ _optionStringActions' = _optionStringActions
         /\ Len(_actions') > Len(_actions) =>
               \A i \in 1..Len(_actions'[Len(_actions')].optionStrings) :
                   _actions'[Len(_actions')].optionStrings[i]
                       \notin DOMAIN _optionStringActions
    ]_vars

\* C17, the case reached: under the 'error' handler a declaration was
\* rejected with a message that lists two conflicting option strings, both
\* of them in the index of the parser
C17_Witness ==
    /\ conflictHandler = "error"
    /\ returned.op = "addArgument"
    /\ returned.threw
    /\ Len(returned.names) = 2
    /\ \A i \in 1..Len(returned.names) : returned.names[i] \in DOMAIN _optionStringActions
    /\ \E kwargs \in rejected : ~BuildAction(kwargs).threw

\* C18: under the 'resolve' conflict handler, a call of addArgument whose
\* action N shares the option strings S with prior actions adds N, makes the
\* index map every string of S to N, leaves every prior action with its
\* option strings outside S (in order), and removes from the list exactly
\* the prior optionals that are left without option strings.
C18_ResolveMovesOptionStrings ==
    [][\A kwargs \in DeclPool(suite) :
         LET N == BuildAction(kwargs).action
             S == checkConflict(N, _optionStringActions)
             kept(P) == SelectSeq(P.optionStrings, LAMBDA o : ~InSeq(o, S))
         IN (/\ conflictHandler = "resolve"
             /\ ~BuildAction(kwargs).threw
             /\ Len(S) > 0
             /\ kwargs \notin rejected
             /\ \/ kwargs \in rejected'
                \/ Len(_actions') > Len(_actions))
            => /\ kwargs \notin rejected'
               /\ \E n \in 1..Len(_actions') :
                     /\ \A k \in 1..Len(_actions) : _actions'[n].id # _actions[k].id
                     /\ _actions'[n].optionStrings = N.optionStrings
                     /\ \A i \in 1..Len(S) :
                           /\ S[i] \in DOMAIN _optionStringActions'
                           /\ _optionStringActions'[S[i]] = _actions'[n].id
               /\ \A k \in 1..Len(_actions) :
                     /\ (kept(_actions[k]) # <<>> \/ isPositional(_actions[k]))
                           <=> \E j \in 1..Len(_actions') : _actions'[j].id = _actions[k].id
                     /\ \A j \in 1..Len(_actions') :
                           _actions'[j].id = _actions[k].id
                              => _actions'[j].optionStrings = kept(_actions[k])
    ]_vars

\* C19: on a Namespace, no call of set, get, isset, unset, keys or values
\* ends in an exception; set returns the Namespace itself; get(k) returns
\* the value of the latest set(k, v); and unset returns the Namespace.
C19_NamespaceOperations ==
    returned.op \in {"set", "get", "isset", "unset", "keys", "values"} =>
        /\ ~returned.threw
        /\ returned.op \in {"set", "unset"} => returned.self
        /\ returned.op = "get" => returned.v = NamespaceGet(topic, returned.names[1])
        /\ returned.op = "set" => returned.names[1] \in DOMAIN topic

\* C20: the option-string index and the action list agree: the index maps
\* every option string of every action of the list to that action, and
\* every key of the index is an option string of the action it maps to,
\* which is in the list.
C20_IndexAgreesWithActionList ==
    /\ \A k \in 1..Len(_actions) :
          \A i \in 1..Len(_actions[k].optionStrings) :
              /\ _actions[k].optionStrings[i] \in DOMAIN _optionStringActions
              /\ _optionStringActions[_actions[k].optionStrings[i]] = _actions[k].id
    /\ \A o \in DOMAIN _optionStringActions :
          \E k \in 1..Len(_actions) :
              /\ _actions[k].id = _optionStringActions[o]
              /\ InSeq(o, _actions[k].optionStrings)

\* C21: every action of the parser satisfies the arity invariant: a store
\* or append action does not have nargs 0, and a store_constant,
\* store_true, store_false, append_constant, count, help or version action
\* has nargs 0.
C21_ArityInvariantOfActions ==
    \A k \in 1..Len(_actions) :
        /\ _actions[k].cls \in {"store", "append"} => _actions[k].nargs # "0"
        /\ _actions[k].cls \in {"store_constant", "store_true", "store_false",
                                "append_constant", "count", "help", "version"}
              => _actions[k].nargs = "0"

\* C22: in a parse by parseArgsKnown, every invocation of an optional whose
\* arity is neither REMAINDER nor PARSER was handed the tokens that follow
\* its option token at once, all of them classified 'A' (no option token,
\* no '--'); and when the first token is an option string of an optional A
\* of the default arity or of a numeric arity n, and the n tokens after it
\* are not all there and classified 'A', the parse ends in a parse error.
C22_OptionalArityIsAnchored ==
    "parseArgsKnown" \in called
    => /\ \A c \in 1..Len(resultKnown.calls) :
             LET call == resultKnown.calls[c]
                 A == ActionById(Parser, call.action)
             IN (isOptional(A) /\ A.nargs \notin {REMAINDER, PARSER})
                => \E i \in 1..Len(argStrings) :
                      /\ resultKnown.pattern[i] = "O"
                      /\ i + Len(call.args) <= Len(argStrings)
                      /\ call.args = SubSeq(argStrings, i + 1, i + Len(call.args))
                      /\ \A j \in (i + 1)..(i + Len(call.args)) :
                            resultKnown.pattern[j] = "A"
       /\ \A k \in 1..Len(_actions) :
             LET A == _actions[k]
                 n == IF A.nargs = "undefined" THEN 1 ELSE NargsNum(A.nargs)
             IN (/\ Len(argStrings) > 0
                 /\ InSeq(argStrings[1], A.optionStrings)
                 /\ Len(resultKnown.pattern) = Len(argStrings)
                 /\ A.nargs = "undefined" \/ IsNumberNargs(A.nargs)
                 /\ \/ Len(argStrings) < 1 + n
                    \/ \E j \in 2..(1 + n) : resultKnown.pattern[j] # "A")
                => resultKnown.outcome = "error"

\* C23: in a parser whose actions are optionals that are not required, for
\* every required mutex group with a member, parseArgs([]) (no member is
\* seen) ends in a parse error, and parseArgs([X]) for a member X of the
\* group that is a store_constant action whose constant differs from its
\* default (one member is seen with a non-default value) returns.
C23_RequiredGroupNeedsOneMember ==
    \A g \in 1..Len(_actionGroupsMutex) :
        LET group == _actionGroupsMutex[g]
        IN (/\ "parseArgs" \in called
            /\ group.required
            /\ Len(group._groupActions) > 0
            /\ \A k \in 1..Len(_actions) : isOptional(_actions[k]) /\ ~_actions[k].required)
           => /\ argStrings = <<>> => resultArgs.outcome = "error"
              /\ \A i \in 1..Len(group._groupActions) :
                    LET X == ActionById(Parser, group._groupActions[i])
                    IN (/\ X.cls = "store_constant"
                        /\ X.constant # X.defaultValue
                        /\ argStrings = <<X.optionStrings[1]>>)
                       => resultArgs.outcome = "ok"

\* C24: for a parser whose only action is a positional P of the default
\* arity of one value, parseArgsKnown([]) leaves P unmatched and ends in a
\* parse error ('too few arguments'), and parseArgsKnown([v]) for a value v
\* satisfies the arity of P: the list of the remaining positionals is
\* empty at the end and the call returns.
C24_TooFewArgumentsIffPositionalUnmatched ==
    (/\ "parseArgsKnown" \in called
     /\ Len(_actions) = 1
     /\ isPositional(_actions[1])
     /\ _actions[1].cls = "store"
     /\ _actions[1].nargs = "undefined")
    => /\ argStrings = <<>>
             => (resultKnown.outcome = "error" /\ Len(resultKnown.positionals) = 1)
       /\ argStrings = <<tV>>
             => (resultKnown.outcome = "ok" /\ Len(resultKnown.positionals) = 0)

\* C25: every action declared with option strings and without a
\* destination has the destination derived from its first option string
\* that begins with two prefix characters, or else from its first option
\* string: the leading prefix characters are removed and every '-' of the
\* rest is replaced with '_'; and no action is declared whose deriving
\* option string is made of prefix characters only.
C25_DestinationDerivedFromOptionString ==
    \A k \in 1..Len(_actions) :
        LET A == _actions[k]
            long == SelectSeq(A.optionStrings,
                              LAMBDA o : Len(o) > 1 /\ o[1] \in prefixChars
                                                    /\ o[2] \in prefixChars)
            from == IF Len(long) > 0 THEN long[1] ELSE A.optionStrings[1]
            rest == stringLStrip(from, prefixChars)
        IN (/\ isOptional(A)
            /\ \E kwargs \in DeclPool(suite) :
                  kwargs.args = A.optionStrings /\ ~defined(kwargs.destination))
           => /\ Len(rest) > 0
              /\ A.destination =
                    Str([i \in 1..Len(rest) |-> IF rest[i] = "-" THEN "_" ELSE rest[i]])

\* C26: after every operation on a HelpFormatter that leaves it with a
\* current section (no endSection was called without an open section),
\* indentationCurrent is not negative, equals indentation times
\* indentationLevel, and indentationLevel is the number of sections open
\* around the current one: an endSection that matches a startSection
\* brings indentationCurrent back to the value it had before that
\* startSection; and a formatHelp that returns leaves indentationCurrent
\* and indentationLevel as they were.
C26_IndentationFollowsTheSections ==
    [][/\ formatter'.sectionCurrent # 0
            => /\ formatter'.indentationCurrent >= 0
               /\ formatter'.indentationCurrent =
                     formatter'.indentation * formatter'.indentationLevel
               /\ formatter'.indentationLevel =
                     SectionDepth(formatter', formatter'.sectionCurrent)
       /\ (endSection /\ formatter'.sectionCurrent # 0)
            => /\ ~formatter'.threw
               /\ formatter'.indentationCurrent =
                     formatter.indentation
                        * SectionDepth(formatter, formatter.sections[formatter.sectionCurrent].parent)
       /\ (HelpFormatterCallFormatHelp /\ ~formatter'.threw)
            => /\ formatter'.indentationCurrent = formatter.indentationCurrent
               /\ formatter'.indentationLevel = formatter.indentationLevel]_vars

\* C26, the case reached: two nested sections were started and ended, an
\* item was added inside the inner one, and the formatter is back at its
\* root section without indentation
C26_Witness ==
    /\ Len(formatter.sections) = 3
    /\ formatter.sections[3].parent = 2
    /\ formatter.sections[2].parent = 1
    /\ Len(formatter.sections[3].items) = 2
    /\ formatter.sectionCurrent = 1
    /\ formatter.indentationCurrent = 0
    /\ ~formatter.threw

C28_MainLoopAdvancesTheCursor ==
    [][cursor' # cursor /\ cursor.stepping
       => /\ cursor'.st.outcome \in {"run", "throw", "error", "exit"}
          /\ cursor'.st.outcome = "run"
             => /\ cursor'.st.startIndex > cursor.st.startIndex
                /\ cursor'.st.startIndex <= Len(argStrings)
          /\ cursor'.iterations >= Len(argStrings)
             => ~LoopCondition(cursor'.st, CursorTuples)]_vars

\* the loop of parseArgsKnown(['v', '-x']) made its pass: the token that
\* no positional took was skipped to the extras, the option was consumed and
\* the loop is over
C28_Witness ==
    /\ cursor.stepping
    /\ argStrings = <<tV, tX>>
    /\ cursor.iterations = 1
    /\ cursor.st.outcome = "run"
    /\ cursor.st.startIndex = 2
    /\ cursor.st.extras = <<tV>>
    /\ ~LoopCondition(cursor.st, CursorTuples)

\* the records of a parse account for the tokens one by one: the first
\* token is the next entry of the extras, or the option token of the next
\* invocation (the part before '=' is its option string) followed by the
\* value tokens handed to it, or the first value token of the next
\* invocation of a positional
RECURSIVE Accounts(_, _, _)
Accounts(tokens, calls, extras) ==
    IF tokens = <<>>
    THEN /\ extras = <<>>
         /\ \A i \in 1..Len(calls) :
               calls[i].optionString = <<>> /\ calls[i].args = <<>>
    ELSE \/ /\ extras # <<>>
            /\ Head(extras) = Head(tokens)
            /\ Accounts(Tail(tokens), calls, Tail(extras))
         \/ /\ calls # <<>>
            /\ Head(calls).optionString # <<>>
            /\ SplitFirst(Head(tokens), "=") = Head(calls).optionString
            /\ Len(Head(calls).args) < Len(tokens)
            /\ SubSeq(tokens, 2, 1 + Len(Head(calls).args)) = Head(calls).args
            /\ Accounts(SubSeq(tokens, 2 + Len(Head(calls).args), Len(tokens)),
                        Tail(calls), extras)
         \/ /\ calls # <<>>
            /\ Head(calls).optionString = <<>>
            /\ Len(Head(calls).args) <= Len(tokens)
            /\ SubSeq(tokens, 1, Len(Head(calls).args)) = Head(calls).args
            /\ Accounts(SubSeq(tokens, 1 + Len(Head(calls).args), Len(tokens)),
                        Tail(calls), extras)

\* the number of tokens the invocations of a parse were handed, option
\* tokens included
RECURSIVE ConsumedCount(_)
ConsumedCount(calls) ==
    IF calls = <<>> THEN 0
    ELSE (IF Head(calls).optionString = <<>> THEN 0 ELSE 1)
         + Len(Head(calls).args) + ConsumedCount(Tail(calls))

\* sub can be obtained from q by leaving entries out
RECURSIVE IsSubsequence(_, _)
IsSubsequence(sub, q) ==
    IF sub = <<>> THEN TRUE
    ELSE IF q = <<>> THEN FALSE
    ELSE IF Head(sub) = Head(q) THEN IsSubsequence(Tail(sub), Tail(q))
    ELSE IsSubsequence(sub, Tail(q))

\* C29: in every parse that returns, each input token is accounted for
\* exactly once: the tokens are, in input order, the option token of a
\* consumed optional followed by the value tokens handed to its invocation,
\* or value tokens handed to the invocation of a positional, or entries of
\* the extras; the counts add up to the number of tokens and the extras
\* keep the input order.
C29_EachTokenAccountedOnce ==
    ("parseArgsKnown" \in called /\ resultKnown.outcome = "ok")
    => /\ Accounts(argStrings, resultKnown.calls, resultKnown.extras)
       /\ ConsumedCount(resultKnown.calls) + Len(resultKnown.extras) = Len(argStrings)
       /\ IsSubsequence(resultKnown.extras, argStrings)

\* parseArgsKnown(['v', '-f']) returned: 'v' is an entry of the extras and
\* '-f' the option token of the one invocation
C29_Witness ==
    /\ "parseArgsKnown" \in called
    /\ resultKnown.outcome = "ok"
    /\ argStrings = <<tV, tF>>
    /\ resultKnown.extras = <<tV>>
    /\ Len(resultKnown.calls) = 1
    /\ resultKnown.calls[1].optionString = tF

\* C30: within one parse each declared positional action is invoked at most
\* once, and a positional that no consume-positionals pass matched (it is
\* still in the list of the remaining positionals) was not invoked.
C30_PositionalInvokedOnlyWhenMatched ==
    "parseArgsKnown" \in called
    => \A k \in 1..Len(_actions) :
          isPositional(_actions[k])
          => /\ Cardinality({i \in 1..Len(resultKnown.calls) :
                               resultKnown.calls[i].action = k}) <= 1
             /\ InSeq(k, resultKnown.positionals)
                => \A i \in 1..Len(resultKnown.calls) : resultKnown.calls[i].action # k

====
